---- MODULE Spec2Model ----
(***************************************************************************)
(* Verification model of the verisentinel dashboard client.                *)
(*                                                                         *)
(*   client/src/pages/change-management.tsx  - the change-request page     *)
(*   client/src/pages/network-topology.tsx   - the topology page           *)
(*                                                                         *)
(* Each page is a React component: its state is the useState cells, the    *)
(* query cache entries it observes and the mutations it owns; an action is *)
(* one event handler or one completion callback, run to its end.  What the *)
(* component renders is a function of that state and is given by           *)
(* operators (the JSX conditions).  The REST API behind apiRequest is not  *)
(* part of the repository: it is the environment.                          *)
(***************************************************************************)
EXTENDS Integers, Sequences, FiniteSets, TLC

(***************************************************************************)
(* Bounds of the model.                                                    *)
(***************************************************************************)
\* Change requests the server holds at most.
MaxRequests == 2
\* Mutation requests the user starts at most in one behaviour.
MaxSent == 2
\* Devices the API holds at most.
MaxDevices == 2
\* Devices of the hierarchies that are laid out, at most.
MaxNodes == 4
\* Deepest nesting of renderDeviceHierarchy calls that is followed when the
\* children relation has a cycle.
MaxDepth == 6

(***************************************************************************)
(* Vocabulary.                                                             *)
(***************************************************************************)
Statuses == {"pending", "approved", "implemented", "rejected"}
\* "viewer" stands for every role that is neither admin, approver nor
\* implementer.
Roles == {"admin", "approver", "implementer", "viewer"}
Kinds == {"create", "approve", "implement"}
\* error.message of a rejected apiRequest.
ErrorMessages == {"409: Conflict", "500: Internal Server Error"}

NoUser == [kind |-> "null"]
Users == {NoUser} \cup {[kind |-> "user", role |-> r] : r \in Roles}
NoRequest == [id |-> 0, status |-> "null"]
NoVariables == [id |-> 0]
NoError == "<none>"
NoSettled == [kind |-> "<none>", outcome |-> "<none>", error |-> NoError]
NoToast == [title |-> "<none>", description |-> "<none>", variant |-> "<none>"]

VARIABLES
    \* ---- change-management.tsx ----
    user,             \* useAuth().user
    server,           \* the change requests as the API holds them
    changeRequests,   \* data of the '/api/change-requests' query
    query,            \* that query's state in the cache
    dialogOpen,       \* useState: the create dialog
    detailsOpen,      \* useState: the details dialog
    selectedRequest,  \* useState: the request the details dialog shows
    form,             \* react-hook-form values of the create form
    formErrors,       \* react-hook-form field errors
    mutation,         \* the three useMutation observers
    lastSettled,      \* the last mutation completed and what its callback got
    nToasts,          \* toast() calls made so far
    lastToast,        \* argument of the last toast() call
    nRequests,        \* mutation requests handed to apiRequest so far
    nUserActions,     \* user actions that started a mutation so far
    peer,             \* the same page open at a second client: its state
    \* ---- network-topology.tsx ----
    api,                 \* the devices as the API holds them
    sites,               \* data of the '/api/sites' query
    devices,             \* data of the '/api/devices' query
    topology,            \* data of the '/api/topology' query
    selectedSite,        \* useState: the site filter
    selectedDeviceType,  \* useState: the device-type filter
    selectedDevice,      \* useState: the details of the device clicked last
    deviceDetailsOpen,   \* useState detailsOpen of the topology page
    zoom,                \* useState: the scale of the diagram, a double
    render               \* the pass of the page's render function over the
                         \* site areas: calls still to make, call stack of
                         \* renderDeviceHierarchy, elements drawn so far

\* The state of the first client alone.
clientVars == <<user, changeRequests, query, dialogOpen, detailsOpen,
                selectedRequest, form, formErrors, mutation, lastSettled, nToasts,
                lastToast, nRequests, nUserActions>>

cmVars == <<clientVars, server, peer>>

viewVars == <<selectedDevice, deviceDetailsOpen, zoom>>

topoVars == <<api, sites, devices, topology, selectedSite, selectedDeviceType,
              render, viewVars>>

vars == <<cmVars, topoVars>>

(***************************************************************************)
(* The create form.                                                        *)
(***************************************************************************)
defaultValues ==
    [title |-> "Firewall Rule Change", description |-> "",
     type |-> "firewall", sourceIp |-> ""]

\* What the user may type into a field.
FieldValues ==
    [title |-> {"Firewall Rule Change"},
     description |-> {"", "Open port 443"},
     type |-> {"firewall"},
     sourceIp |-> {""}]

\* z.enum([...]) of the type field.
ChangeTypes == {"standard", "firewall", "server", "network", "emergency"}

\* Mutant: only the title is required.
requestFormSchema_titleOnly(data) ==
    {f \in {"title"} : Len(data[f]) < 1}
        \cup {f \in {"type"} : data[f] \notin ChangeTypes}

\* Mutant: a firewall change requires its source address.
requestFormSchema_sourceIpRequired(data) ==
    {f \in {"title", "description"} : Len(data[f]) < 1}
        \cup {f \in {"type"} : data[f] \notin ChangeTypes}
        \cup {f \in {"sourceIp"} : data.type = "firewall" /\ Len(data[f]) < 1}

\* requestFormSchema: the fields that fail validation.  title and
\* description are z.string().min(1), type is an enum, sourceIp is
\* z.string().optional().
requestFormSchema(data) ==
    {f \in {"title", "description"} : Len(data[f]) < 1}
        \cup {f \in {"type"} : data[f] \notin ChangeTypes}

(***************************************************************************)
(* The query cache entry of '/api/change-requests'.                        *)
(***************************************************************************)
NoData == [loaded |-> FALSE, list |-> <<>>]

\* useQuery(...).isLoading: the first fetch is outstanding.
isLoading == query.fetching /\ ~changeRequests.loaded

\* queryClient.invalidateQueries: the entry is marked invalidated and, being
\* observed by the mounted page, fetched again.
invalidateQueries(q) == [q EXCEPT !.invalidated = TRUE, !.fetching = TRUE]

(***************************************************************************)
(* What the page renders.                                                  *)
(***************************************************************************)
\* user?.role
\* if (isLoading) return the spinner; otherwise the page with the table.
LoaderRendered == isLoading
TableRendered == ~isLoading

userRole == IF user = NoUser THEN "undefined" ELSE user.role

\* The body of the details dialog: {selectedRequest && ( ... )} inside
\* <Dialog open={detailsOpen}>.
DetailsRendered == ~isLoading /\ detailsOpen /\ selectedRequest # NoRequest

\* Mutant: the role test is left out.
ApproveControl_noRoleCheck ==
    /\ DetailsRendered
    /\ selectedRequest.status = "pending"

\* Mutant: the status test of the approve control is left out.
ApproveControl_noStatusCheck ==
    /\ DetailsRendered
    /\ (userRole = "admin" \/ userRole = "approver")

ApproveControl ==
    /\ DetailsRendered
    /\ selectedRequest.status = "pending"
    /\ (userRole = "admin" \/ userRole = "approver")

\* Mutant: the status test is left out.
ImplementControl_noStatusCheck ==
    /\ DetailsRendered
    /\ (userRole = "admin" \/ userRole = "implementer")

\* Mutant: the role test copied from the approve control.
ImplementControl_approverRole ==
    /\ DetailsRendered
    /\ selectedRequest.status = "approved"
    /\ (userRole = "admin" \/ userRole = "approver")

ImplementControl ==
    /\ DetailsRendered
    /\ selectedRequest.status = "approved"
    /\ (userRole = "admin" \/ userRole = "implementer")

\* disabled={xMutation.isPending}
isPending(k) == mutation[k].isPending

\* The rows of the table (activeTab = "all").
filteredRequests ==
    IF changeRequests.loaded THEN changeRequests.list ELSE <<>>

(***************************************************************************)
(* toast() and useMutation().mutate().                                     *)
(***************************************************************************)
toast(t) == nToasts' = nToasts + 1 /\ lastToast' = t

\* mutate(variables): the mutation turns pending and mutationFn hands one
\* request to apiRequest.
mutate(k, variables) ==
    /\ mutation' = [mutation EXCEPT ![k] =
           [isPending |-> TRUE, variables |-> variables]]
    /\ nRequests' = nRequests + 1
    /\ UNCHANGED lastSettled

(***************************************************************************)
(* Completion callbacks.                                                   *)
(***************************************************************************)
\* Mutant: the form keeps its values after a successful create.
createOnSuccess_keepsForm(data) ==
    /\ query' = invalidateQueries(query)
    /\ dialogOpen' = FALSE
    /\ toast([title |-> "Change Request Created",
              description |-> "The change request has been successfully created and is pending approval.",
              variant |-> "default"])
    /\ UNCHANGED <<changeRequests, detailsOpen, selectedRequest, form, formErrors, nRequests>>

createOnSuccess(data) ==
    /\ query' = invalidateQueries(query)
    /\ dialogOpen' = FALSE
    /\ form' = defaultValues
    /\ formErrors' = {}
    /\ toast([title |-> "Change Request Created",
              description |-> "The change request has been successfully created and is pending approval.",
              variant |-> "default"])
    /\ UNCHANGED <<changeRequests, detailsOpen, selectedRequest, nRequests>>

\* Mutant: a failed create also resets the form.
createOnError_resetsForm(message) ==
    /\ toast([title |-> "Failed to Create Change Request",
              description |-> message, variant |-> "destructive"])
    /\ form' = defaultValues
    /\ UNCHANGED <<changeRequests, query, dialogOpen, detailsOpen,
                   selectedRequest, formErrors, nRequests>>

createOnError(message) ==
    /\ toast([title |-> "Failed to Create Change Request",
              description |-> message, variant |-> "destructive"])
    /\ UNCHANGED <<changeRequests, query, dialogOpen, detailsOpen,
                   selectedRequest, form, formErrors, nRequests>>

\* Mutant: the response body is written into the cached list
\* (setQueryData) instead of invalidating the entry.
approveOnSuccess_setQueryData(data) ==
    /\ changeRequests' =
          [changeRequests EXCEPT !.list =
              [i \in DOMAIN @ |-> IF @[i].id = data.id THEN data ELSE @[i]]]
    /\ detailsOpen' = FALSE
    /\ toast([title |-> "Change Request Approved",
              description |-> "The change request has been approved successfully.",
              variant |-> "default"])
    /\ UNCHANGED <<query, dialogOpen, selectedRequest, form, formErrors, nRequests>>

approveOnSuccess(data) ==
    /\ query' = invalidateQueries(query)
    /\ detailsOpen' = FALSE
    /\ toast([title |-> "Change Request Approved",
              description |-> "The change request has been approved successfully.",
              variant |-> "default"])
    /\ UNCHANGED <<changeRequests, dialogOpen, selectedRequest, form,
                   formErrors, nRequests>>

\* Mutant: a failed approve is sent again.
approveOnError_retry(message) ==
    /\ toast([title |-> "Failed to Approve Change Request",
              description |-> message, variant |-> "destructive"])
    /\ nRequests' = nRequests + 1
    /\ UNCHANGED <<changeRequests, query, dialogOpen, detailsOpen,
                   selectedRequest, form, formErrors>>

\* Mutant: a failed approve gives up on the request and closes the dialog.
approveOnError_closesDetails(message) ==
    /\ toast([title |-> "Failed to Approve Change Request",
              description |-> message, variant |-> "destructive"])
    /\ detailsOpen' = FALSE
    /\ UNCHANGED <<changeRequests, query, dialogOpen, selectedRequest, form,
                   formErrors, nRequests>>

approveOnError(message) ==
    /\ toast([title |-> "Failed to Approve Change Request",
              description |-> message, variant |-> "destructive"])
    /\ UNCHANGED <<changeRequests, query, dialogOpen, detailsOpen,
                   selectedRequest, form, formErrors, nRequests>>

implementOnSuccess(data) ==
    /\ query' = invalidateQueries(query)
    /\ detailsOpen' = FALSE
    /\ toast([title |-> "Change Request Implemented",
              description |-> "The change request has been marked as implemented.",
              variant |-> "default"])
    /\ UNCHANGED <<changeRequests, dialogOpen, selectedRequest, form,
                   formErrors, nRequests>>

implementOnError(message) ==
    /\ toast([title |-> "Failed to Implement Change Request",
              description |-> message, variant |-> "destructive"])
    /\ UNCHANGED <<changeRequests, query, dialogOpen, detailsOpen,
                   selectedRequest, form, formErrors, nRequests>>

(***************************************************************************)
(* The API (environment).                                                  *)
(***************************************************************************)
SetStatus(list, id, s) == [list EXCEPT ![id].status = s]

\* Mutant: the approve mutation asks for the rejection.
mutationFn_approveRejects(k, variables) ==
    CASE k = "create"    -> [method |-> "POST", path |-> "/api/change-requests",
                             id |-> 0, action |-> ""]
      [] k = "approve"   -> [method |-> "PUT", path |-> "/api/change-requests",
                             id |-> variables.id, action |-> "reject"]
      [] k = "implement" -> [method |-> "PUT", path |-> "/api/change-requests",
                             id |-> variables.id, action |-> "implement"]

\* mutationFn of the three mutations: the request apiRequest sends,
\* `${path}/${id}/${action}` for the two PUTs.
mutationFn(k, variables) ==
    CASE k = "create"    -> [method |-> "POST", path |-> "/api/change-requests",
                             id |-> 0, action |-> ""]
      [] k = "approve"   -> [method |-> "PUT", path |-> "/api/change-requests",
                             id |-> variables.id, action |-> "approve"]
      [] k = "implement" -> [method |-> "PUT", path |-> "/api/change-requests",
                             id |-> variables.id, action |-> "implement"]

\* The transition a request asks the API for.
Route(request) ==
    IF request.method = "POST" /\ request.action = "" THEN "create"
    ELSE IF request.method = "PUT" /\ request.action \in {"approve", "implement", "reject"}
         THEN request.action
         ELSE "none"

\* Whether the API accepts the request now, and what it then holds.
ServerAccepts(k, variables) ==
    LET r == Route(mutationFn(k, variables))
    IN CASE r = "create"    -> Len(server) < MaxRequests
         [] r = "approve"   -> /\ variables.id \in 1..Len(server)
                               /\ server[variables.id].status = "pending"
         [] r = "implement" -> /\ variables.id \in 1..Len(server)
                               /\ server[variables.id].status = "approved"
         [] r = "reject"    -> /\ variables.id \in 1..Len(server)
                               /\ server[variables.id].status = "pending"
         [] OTHER           -> FALSE

ServerApply(k, variables) ==
    LET r == Route(mutationFn(k, variables))
    IN CASE r = "create"    -> Append(server, [id |-> Len(server) + 1, status |-> "pending"])
         [] r = "approve"   -> SetStatus(server, variables.id, "approved")
         [] r = "implement" -> SetStatus(server, variables.id, "implemented")
         [] r = "reject"    -> SetStatus(server, variables.id, "rejected")

\* The response body: the created or updated change request.
ResponseBody(k, variables) ==
    LET r == Route(mutationFn(k, variables))
    IN CASE r = "create"    -> [id |-> Len(server) + 1, status |-> "pending"]
         [] r = "approve"   -> [id |-> variables.id, status |-> "approved"]
         [] r = "implement" -> [id |-> variables.id, status |-> "implemented"]
         [] r = "reject"    -> [id |-> variables.id, status |-> "rejected"]

(***************************************************************************)
(* The page at a second client.  It is the same component; its cells are   *)
(* the fields of peer, and only what the approval of a request takes is    *)
(* kept: the query, the details dialog and the approve mutation.           *)
(***************************************************************************)
PeerUnmounted ==
    [role |-> "undefined", changeRequests |-> NoData,
     query |-> [fetching |-> FALSE, invalidated |-> FALSE],
     detailsOpen |-> FALSE, selectedRequest |-> NoRequest,
     approve |-> [isPending |-> FALSE, variables |-> NoVariables],
     nToasts |-> 0, lastToast |-> NoToast, nRequests |-> 0]

PeerMounted(role) ==
    [PeerUnmounted EXCEPT !.role = role, !.query.fetching = TRUE]

peerIsLoading == peer.query.fetching /\ ~peer.changeRequests.loaded

peerApproveControl ==
    /\ ~peerIsLoading
    /\ peer.detailsOpen
    /\ peer.selectedRequest # NoRequest
    /\ peer.selectedRequest.status = "pending"
    /\ (peer.role = "admin" \/ peer.role = "approver")

peerFetchResolve ==
    /\ peer.query.fetching
    /\ peer' = [peer EXCEPT !.changeRequests = [loaded |-> TRUE, list |-> server],
                            !.query = [fetching |-> FALSE, invalidated |-> FALSE]]
    /\ UNCHANGED <<topoVars, clientVars, server>>

peerClickView ==
    /\ ~peerIsLoading
    /\ \E i \in 1..Len(peer.changeRequests.list) :
          /\ <<peer.selectedRequest, peer.detailsOpen>> # <<peer.changeRequests.list[i], TRUE>>
          /\ peer' = [peer EXCEPT !.selectedRequest = peer.changeRequests.list[i],
                                  !.detailsOpen = TRUE]
    /\ UNCHANGED <<topoVars, clientVars, server>>

peerClickApprove ==
    /\ peerApproveControl
    /\ ~peer.approve.isPending
    /\ peer.nRequests < MaxSent
    /\ peer' = [peer EXCEPT
          !.approve = [isPending |-> TRUE, variables |-> [id |-> peer.selectedRequest.id]],
          !.nRequests = @ + 1]
    /\ UNCHANGED <<topoVars, clientVars, server>>

peerApproveSuccess ==
    /\ peer.approve.isPending
    /\ ServerAccepts("approve", peer.approve.variables)
    /\ server' = ServerApply("approve", peer.approve.variables)
    /\ peer' = [peer EXCEPT
          !.approve = [isPending |-> FALSE, variables |-> NoVariables],
          !.query = invalidateQueries(peer.query),
          !.detailsOpen = FALSE,
          !.nToasts = @ + 1,
          !.lastToast = [title |-> "Change Request Approved",
                         description |-> "The change request has been approved successfully.",
                         variant |-> "default"]]
    /\ UNCHANGED <<topoVars, clientVars>>

peerApproveError(message) ==
    /\ peer.approve.isPending
    /\ peer' = [peer EXCEPT
          !.approve = [isPending |-> FALSE, variables |-> NoVariables],
          !.nToasts = @ + 1,
          !.lastToast = [title |-> "Failed to Approve Change Request",
                         description |-> message, variant |-> "destructive"]]
    /\ UNCHANGED <<topoVars, clientVars, server>>

(***************************************************************************)
(* Initial state: the page has just mounted, the first fetch is out.  The   *)
(* API holds any list of change requests, each in any status (other actors *)
(* may have approved, implemented or rejected them before); from then on   *)
(* this client is the only one that changes them.                          *)
(***************************************************************************)
InitialServers ==
    UNION {{[i \in 1..n |-> [id |-> i, status |-> f[i]]] : f \in [1..n -> Statuses]}
             : n \in 0..MaxRequests}

InitChangeManagement ==
    /\ user \in Users
    /\ server \in InitialServers
    /\ changeRequests = NoData
    /\ query = [fetching |-> TRUE, invalidated |-> FALSE]
    /\ dialogOpen = FALSE
    /\ detailsOpen = FALSE
    /\ selectedRequest = NoRequest
    /\ form = defaultValues
    /\ formErrors = {}
    /\ mutation = [k \in Kinds |-> [isPending |-> FALSE, variables |-> NoVariables]]
    /\ lastSettled = NoSettled
    /\ nToasts = 0
    /\ lastToast = NoToast
    /\ nRequests = 0
    /\ nUserActions = 0

(***************************************************************************)
(* Actions.                                                                *)
(***************************************************************************)
\* The outstanding GET /api/change-requests answers: the cached list is the
\* list the API holds.
FetchResolve ==
    /\ query.fetching
    /\ changeRequests' = [loaded |-> TRUE, list |-> server]
    /\ query' = [fetching |-> FALSE, invalidated |-> FALSE]
    /\ UNCHANGED <<topoVars, peer, user, server, dialogOpen, detailsOpen, selectedRequest, form,
                   formErrors, mutation, lastSettled, nToasts, lastToast, nRequests, nUserActions>>

\* The outstanding GET fails: the cached data stays as it is.
FetchReject ==
    /\ query.fetching
    /\ query' = [query EXCEPT !.fetching = FALSE]
    /\ UNCHANGED <<topoVars, peer, user, server, changeRequests, dialogOpen, detailsOpen,
                   selectedRequest, form, formErrors, mutation, lastSettled, nToasts, lastToast,
                   nRequests, nUserActions>>

\* <Dialog open={dialogOpen} onOpenChange={setDialogOpen}>
setDialogOpen(open) ==
    /\ ~isLoading
    /\ dialogOpen # open
    /\ dialogOpen' = open
    /\ UNCHANGED <<topoVars, peer, user, server, changeRequests, query, detailsOpen, selectedRequest,
                   form, formErrors, mutation, lastSettled, nToasts, lastToast, nRequests,
                   nUserActions>>

\* The user edits one field of the create form; after a failed submit the
\* field is validated again on change.
EditField(f, v) ==
    /\ ~isLoading
    /\ f = "sourceIp" => form.type = "firewall"
    /\ dialogOpen
    /\ form[f] # v
    /\ form' = [form EXCEPT ![f] = v]
    /\ formErrors' = IF f \in formErrors
                     THEN formErrors \ (({f}) \ requestFormSchema(form'))
                     ELSE formErrors
    /\ UNCHANGED <<topoVars, peer, user, server, changeRequests, query, dialogOpen, detailsOpen,
                   selectedRequest, mutation, lastSettled, nToasts, lastToast, nRequests,
                   nUserActions>>

\* form.handleSubmit(handleCreateRequest): the values pass validation.
handleCreateRequest ==
    /\ ~isLoading
    /\ dialogOpen
    /\ ~isPending("create")
    /\ requestFormSchema(form) = {}
    /\ nRequests < MaxSent
    /\ mutate("create", form)
    /\ nUserActions' = nUserActions + 1
    /\ formErrors' = {}
    /\ UNCHANGED <<topoVars, peer, user, server, changeRequests, query, dialogOpen, detailsOpen,
                   selectedRequest, form, nToasts, lastToast>>

\* form.handleSubmit(handleCreateRequest): validation fails.
SubmitInvalid ==
    /\ ~isLoading
    /\ dialogOpen
    /\ ~isPending("create")
    /\ requestFormSchema(form) # {}
    /\ formErrors' = requestFormSchema(form)
    /\ formErrors' # formErrors
    /\ UNCHANGED <<topoVars, peer, user, server, changeRequests, query, dialogOpen, detailsOpen,
                   selectedRequest, form, mutation, lastSettled, nToasts, lastToast, nRequests,
                   nUserActions>>

handleViewDetails(request) ==
    /\ ~isLoading
    /\ selectedRequest' = request
    /\ detailsOpen' = TRUE
    /\ UNCHANGED <<topoVars, peer, user, server, changeRequests, query, dialogOpen, form, formErrors,
                   mutation, lastSettled, nToasts, lastToast, nRequests, nUserActions>>

\* The View button of a table row.
ClickView ==
    \E i \in 1..Len(filteredRequests) :
        /\ <<selectedRequest, detailsOpen>> # <<filteredRequests[i], TRUE>>
        /\ handleViewDetails(filteredRequests[i])

\* <Dialog open={detailsOpen} onOpenChange={setDetailsOpen}>: closing.
CloseDetails ==
    /\ ~isLoading
    /\ detailsOpen
    /\ detailsOpen' = FALSE
    /\ UNCHANGED <<topoVars, peer, user, server, changeRequests, query, dialogOpen, selectedRequest,
                   form, formErrors, mutation, lastSettled, nToasts, lastToast, nRequests,
                   nUserActions>>

\* Mutant: the shown status is set optimistically when the request is sent.
handleApproveRequest_optimistic(id) ==
    /\ mutate("approve", [id |-> id])
    /\ selectedRequest' = [selectedRequest EXCEPT !.status = "approved"]
    /\ UNCHANGED <<topoVars, peer, user, server, changeRequests, query, dialogOpen, detailsOpen,
                   form, formErrors, nToasts, lastToast>>

handleApproveRequest(id) ==
    /\ mutate("approve", [id |-> id])
    /\ UNCHANGED <<topoVars, peer, user, server, changeRequests, query, dialogOpen, detailsOpen,
                   selectedRequest, form, formErrors, nToasts, lastToast>>

\* Mutant: the button is not disabled while a request is outstanding.
ClickApprove_notDisabled ==
    /\ ApproveControl
    /\ nRequests < MaxSent
    /\ nUserActions' = nUserActions + 1
    /\ handleApproveRequest(selectedRequest.id)

\* The Approve Request button.
ClickApprove ==
    /\ ApproveControl
    /\ ~isPending("approve")
    /\ nRequests < MaxSent
    /\ nUserActions' = nUserActions + 1
    /\ handleApproveRequest(selectedRequest.id)

handleImplementRequest(id) ==
    /\ mutate("implement", [id |-> id])
    /\ UNCHANGED <<topoVars, peer, user, server, changeRequests, query, dialogOpen, detailsOpen,
                   selectedRequest, form, formErrors, nToasts, lastToast>>

\* The Mark as Implemented button.
ClickImplement ==
    /\ ImplementControl
    /\ ~isPending("implement")
    /\ nRequests < MaxSent
    /\ nUserActions' = nUserActions + 1
    /\ handleImplementRequest(selectedRequest.id)

onSuccess(k, data) ==
    CASE k = "create"    -> createOnSuccess(data)
      [] k = "approve"   -> approveOnSuccess(data)
      [] k = "implement" -> implementOnSuccess(data)

onError(k, message) ==
    CASE k = "create"    -> createOnError(message)
      [] k = "approve"   -> approveOnError(message)
      [] k = "implement" -> implementOnError(message)

\* The API accepts a pending mutation's request and the response arrives.
MutationSuccess(k) ==
    /\ isPending(k)
    /\ ServerAccepts(k, mutation[k].variables)
    /\ server' = ServerApply(k, mutation[k].variables)
    /\ mutation' = [mutation EXCEPT ![k] = [isPending |-> FALSE, variables |-> NoVariables]]
    /\ lastSettled' = [kind |-> k, outcome |-> "success", error |-> NoError]
    /\ onSuccess(k, ResponseBody(k, mutation[k].variables))
    /\ UNCHANGED <<topoVars, peer, user, nUserActions>>

\* A pending mutation's request fails (the API refuses it, or the network).
MutationError(k, message) ==
    /\ isPending(k)
    /\ mutation' = [mutation EXCEPT ![k] = [isPending |-> FALSE, variables |-> NoVariables]]
    /\ lastSettled' = [kind |-> k, outcome |-> "error", error |-> message]
    /\ onError(k, message)
    /\ UNCHANGED <<topoVars, peer, user, server, nUserActions>>

Next ==
    \/ FetchResolve
    \/ FetchReject
    \/ \E open \in BOOLEAN : setDialogOpen(open)
    \/ \E f \in DOMAIN FieldValues : \E v \in FieldValues[f] : EditField(f, v)
    \/ handleCreateRequest
    \/ SubmitInvalid
    \/ ClickView
    \/ CloseDetails
    \/ ClickApprove
    \/ ClickImplement
    \/ \E k \in Kinds : MutationSuccess(k)
    \/ \E k \in Kinds : \E m \in ErrorMessages : MutationError(k, m)

\* useState<DeviceDetails | null>(null); undefined fields of the details.
NoDevice == [id |-> 0]
Undefined == [id |-> 0, undefined |-> TRUE]

\* Nothing is drawn yet.  previous keeps what the last completed pass over
\* the site areas drew.
NoRender == [rendered |-> FALSE, elements |-> <<>>]
NotRendered ==
    [phase |-> "idle", todo |-> <<>>, stack |-> <<>>, elements |-> <<>>,
     previous |-> NoRender]

(***************************************************************************)
(* The zoom factor is a JavaScript number.  A double between 1/4 and 4 is  *)
(* a whole number of units of 2^-55, kept here in two limbs of 28 bits:    *)
(* hi * 2^28 + lo.  Sums and differences are exact and then rounded to the *)
(* nearest double, ties to even, as IEEE 754 addition does.                *)
(***************************************************************************)
LimbBase == 2^28

Double(hi, lo) == [hi |-> hi, lo |-> lo]

\* The literals 1, 2, 0.5 and 0.1 (0x1.999999999999ap-4).
One == Double(2^27, 0)
Two == Double(2^28, 0)
Half == Double(2^26, 0)
Tenth == Double(13421772, 214748365)

Less(a, b) == a.hi < b.hi \/ (a.hi = b.hi /\ a.lo < b.lo)
LessEq(a, b) == a = b \/ Less(a, b)

ExactSum(a, b) ==
    Double(a.hi + b.hi + (a.lo + b.lo) \div LimbBase, (a.lo + b.lo) % LimbBase)

\* a - b for b <= a.
ExactDifference(a, b) ==
    IF a.lo >= b.lo THEN Double(a.hi - b.hi, a.lo - b.lo)
    ELSE Double(a.hi - b.hi - 1, a.lo + LimbBase - b.lo)

\* The spacing of the doubles around v, in units: 2^-52 is 8 units.
Ulp(v) ==
    IF v.hi >= 2^28 THEN 16
    ELSE IF v.hi >= 2^27 THEN 8
    ELSE IF v.hi >= 2^26 THEN 4
    ELSE 2

Round(v) ==
    LET ulp == Ulp(v)
        r == v.lo % ulp
        down == v.lo - r
        up == down + ulp
        lo == IF 2 * r < ulp THEN down
              ELSE IF 2 * r > ulp THEN up
              ELSE IF (down \div ulp) % 2 = 0 THEN down ELSE up
    IN IF lo = LimbBase THEN Double(v.hi + 1, 0) ELSE Double(v.hi, lo)

\* prev + 0.1 and prev - 0.1
Plus(a, b) == Round(ExactSum(a, b))
Minus(a, b) == Round(ExactDifference(a, b))

MathMin(a, b) == IF Less(b, a) THEN b ELSE a
MathMax(a, b) == IF Less(a, b) THEN b ELSE a

\* While the change-request page is shown the topology page is not mounted.
TopologyUnmounted ==
    /\ api = [devices |-> <<>>]
    /\ sites = [loaded |-> FALSE, data |-> <<>>]
    /\ devices = [loaded |-> FALSE, data |-> <<>>]
    /\ topology = [loaded |-> FALSE, data |-> [sites |-> <<>>, nodes |-> <<>>]]
    /\ selectedSite = "all"
    /\ selectedDeviceType = "all"
    /\ render = NotRendered
    /\ selectedDevice = NoDevice
    /\ deviceDetailsOpen = FALSE
    /\ zoom = One

Init == InitChangeManagement /\ peer = PeerUnmounted /\ TopologyUnmounted

Spec == Init /\ [][Next]_vars

(***************************************************************************)
(* The create form on its own: every field may be cleared or filled, the   *)
(* type may be changed; one user, no change request at the server yet.     *)
(***************************************************************************)
FormFieldValues ==
    [title |-> {"", "Firewall Rule Change"},
     description |-> {"", "Open port 443"},
     type |-> {"firewall", "standard"},
     sourceIp |-> {"", "10.0.0.1"}]

InitForm ==
    /\ Init
    /\ user = [kind |-> "user", role |-> "admin"]
    /\ server = <<>>

NextForm ==
    \/ FetchResolve
    \/ FetchReject
    \/ \E open \in BOOLEAN : setDialogOpen(open)
    \/ \E f \in DOMAIN FormFieldValues : \E v \in FormFieldValues[f] : EditField(f, v)
    \/ handleCreateRequest
    \/ SubmitInvalid
    \/ MutationSuccess("create")
    \/ \E m \in ErrorMessages : MutationError("create", m)

SpecForm == InitForm /\ [][NextForm]_vars

(***************************************************************************)
(* Two approvers: the page is open at two clients of the same API, which   *)
(* holds pending requests only; both fetch, view and approve.              *)
(***************************************************************************)
InitTwoClients ==
    /\ InitChangeManagement
    /\ TopologyUnmounted
    /\ peer = PeerMounted("approver")
    /\ user = [kind |-> "user", role |-> "admin"]
    /\ Len(server) > 0
    /\ \A i \in 1..Len(server) : server[i].status = "pending"

NextTwoClients ==
    \/ FetchResolve
    \/ ClickView
    \/ ClickApprove
    \/ MutationSuccess("approve")
    \/ \E m \in ErrorMessages : MutationError("approve", m)
    \/ peerFetchResolve
    \/ peerClickView
    \/ peerClickApprove
    \/ peerApproveSuccess
    \/ \E m \in ErrorMessages : peerApproveError(m)

SpecTwoClients == InitTwoClients /\ [][NextTwoClients]_vars

(***************************************************************************)
(* network-topology.tsx: the data the API serves.                          *)
(***************************************************************************)
DeviceTypes == {"firewall", "router", "switch", "server", "storage"}
DeviceStatuses == {"active", "warning", "critical", "down"}
ApiSites == <<[id |-> 1, name |-> "Primary Site"], [id |-> 2, name |-> "DR Site"]>>
SiteIds == {ApiSites[i].id : i \in 1..Len(ApiSites)}

\* The device lists of at most n devices, ids 1..n in list order, with types,
\* statuses and sites from the given sets.  parentDeviceId 0 stands for
\* null; a parent is an earlier device of the same site, so the parent
\* references form a forest within each site.
RECURSIVE DeviceLists(_, _, _, _)
DeviceLists(n, types, statuses, siteIds) ==
    IF n = 0 THEN {<<>>}
    ELSE LET shorter == DeviceLists(n - 1, types, statuses, siteIds)
             full == {l \in shorter : Len(l) = n - 1}
             Parents(l, s) == {0} \cup {j \in 1..(n - 1) : l[j].siteId = s}
             Extend(l, s) ==
                 {Append(l, [id |-> n, type |-> t, status |-> st, siteId |-> s,
                             parentDeviceId |-> p])
                    : t \in types, st \in statuses, p \in Parents(l, s)}
         IN shorter \cup UNION {UNION {Extend(l, s) : s \in siteIds} : l \in full}

\* GET /api/topology: per site its top-level devices, every device with its
\* children, derived by reverse lookup on the parent reference.
BuildTopology(devs) ==
    LET ids == [i \in 1..Len(devs) |-> i]
        ChildrenOf(p) ==
            LET IsChild(j) == devs[j].parentDeviceId = p IN SelectSeq(ids, IsChild)
        TopLevelOf(s) ==
            LET IsTop(j) == devs[j].siteId = s /\ devs[j].parentDeviceId = 0
            IN SelectSeq(ids, IsTop)
    IN [sites |-> [i \in 1..Len(ApiSites) |->
                     [id |-> ApiSites[i].id, name |-> ApiSites[i].name,
                      devices |-> TopLevelOf(ApiSites[i].id)]],
        nodes |-> [i \in 1..Len(devs) |->
                     [id |-> devs[i].id, type |-> devs[i].type,
                      status |-> devs[i].status, siteId |-> devs[i].siteId,
                      parentDeviceId |-> devs[i].parentDeviceId,
                      children |-> ChildrenOf(i)]]]

(***************************************************************************)
(* network-topology.tsx: filters.                                          *)
(***************************************************************************)
\* Mutant: the spinner is shown only while nothing has arrived.
topologyLoading_nothingYet == ~sites.loaded /\ ~devices.loaded /\ ~topology.loaded

\* isLoadingSites || isLoadingDevices || isLoadingTopology
topologyLoading == ~sites.loaded \/ ~devices.loaded \/ ~topology.loaded

\* if (loading) return the spinner; otherwise the page with the diagram.
TopologyLoaderRendered == topologyLoading
DiagramRendered == ~topologyLoading

\* The options of the two Select controls.
SiteOptions == {"all"} \cup {ToString(sites.data[i].id) : i \in 1..Len(sites.data)}
DeviceTypeOptions == {"all", "server", "network", "storage"}

\* Mutant: a device passes when either filter matches.
filteredDevices_either ==
    LET Keep(device) ==
            LET siteMatch == selectedSite = "all" \/ ToString(device.siteId) = selectedSite
                typeMatch == selectedDeviceType = "all" \/ device.type = selectedDeviceType
            IN siteMatch \/ typeMatch
    IN SelectSeq(devices.data, Keep)

filteredDevices ==
    LET Keep(device) ==
            LET siteMatch == selectedSite = "all" \/ ToString(device.siteId) = selectedSite
                typeMatch == selectedDeviceType = "all" \/ device.type = selectedDeviceType
            IN siteMatch /\ typeMatch
    IN SelectSeq(devices.data, Keep)

networkDevices ==
    LET IsNetwork(d) == d.type = "firewall" \/ d.type = "switch" \/ d.type = "router"
    IN SelectSeq(filteredDevices, IsNetwork)

serverDevices ==
    LET IsServer(d) == d.type = "server" IN SelectSeq(filteredDevices, IsServer)

(***************************************************************************)
(* network-topology.tsx: the static tier icons.                            *)
(***************************************************************************)
OfType(list, type) == LET Is(d) == d.type = type IN SelectSeq(list, Is)

firewallIcons ==
    LET ds == OfType(networkDevices, "firewall")
    IN [i \in 1..Len(ds) |-> [layer |-> "firewall", id |-> ds[i].id, x |-> 370, y |-> 120]]

routerIcons ==
    LET ds == OfType(networkDevices, "router")
    IN [i \in 1..Len(ds) |-> [layer |-> "router", id |-> ds[i].id, x |-> 370, y |-> 190]]

\* sites?.find(s => s.id === device.siteId) && site.id !== 1
switchIcons ==
    LET ds == OfType(networkDevices, "switch")
        SecondarySite(d) ==
            \E i \in 1..Len(sites.data) :
                sites.data[i].id = d.siteId /\ sites.data[i].id # 1
    IN [i \in 1..Len(ds) |->
          [layer |-> "switch", id |-> ds[i].id,
           x |-> IF SecondarySite(ds[i]) THEN 570 ELSE 200, y |-> 320]]

staticIcons == firewallIcons \o routerIcons \o switchIcons

(***************************************************************************)
(* network-topology.tsx: renderDeviceHierarchy.  Lengths are in units of   *)
(* 1/Scale px, so that the divisions by 2 and by the number of children    *)
(* are exact.                                                              *)
(***************************************************************************)
Scale == 2 * 2 * 2 * 2 * 3 * 3 * 5 * 7
Px(n) == n * Scale

nodeHeight == 40
verticalSpacing == 70

nodeWidth(device) == IF device.type = "server" THEN 50 ELSE 60

\* fill and stroke by device type and, for servers, status.
nodeColors(device) ==
    IF device.type = "firewall" THEN [fill |-> "#FEF3C7", stroke |-> "#FF832B"]
    ELSE IF device.type = "router" THEN [fill |-> "#D1FAE5", stroke |-> "#42BE65"]
    ELSE IF device.type = "server" THEN
        IF device.status = "critical" \/ device.status = "down"
            THEN [fill |-> "#FEE2E2", stroke |-> "#FF0000"]
        ELSE IF device.status = "warning"
            THEN [fill |-> "#FEF3C7", stroke |-> "#FF832B"]
        ELSE IF device.status = "secure" \/ device.status = "compliant"
            THEN [fill |-> "#D1FAE5", stroke |-> "#42BE65"]
        ELSE [fill |-> "#CCE0FF", stroke |-> "#0F62FE"]
    ELSE [fill |-> "#E0E7FF", stroke |-> "#6366F1"]

RiskCircle(device, x, y, fill) ==
    [cx |-> x + Px(nodeWidth(device)) \div 2, cy |-> y - Px(10), r |-> 5,
     fill |-> fill, className |-> "animate-pulse"]

\* Mutant: the indicator is tied to the server status colours.
riskIndicators_serversOnly(device, x, y) ==
    IF device.type # "server" THEN <<>>
    ELSE (IF device.status = "critical" \/ device.status = "down"
            THEN <<RiskCircle(device, x, y, "#FF0000")>> ELSE <<>>)
         \o (IF device.status = "warning"
               THEN <<RiskCircle(device, x, y, "#FF832B")>> ELSE <<>>)

\* The pulsing circles drawn above the node.
riskIndicators(device, x, y) ==
    (IF device.status = "critical" \/ device.status = "down"
       THEN <<RiskCircle(device, x, y, "#FF0000")>> ELSE <<>>)
    \o (IF device.status = "warning"
          THEN <<RiskCircle(device, x, y, "#FF832B")>> ELSE <<>>)

\* <g key={`device-${device.id}`}>: the rectangle and what is drawn on it.
deviceElement(device, x, y) ==
    [kind |-> "device", id |-> device.id, x |-> x, y |-> y,
     width |-> Px(nodeWidth(device)), height |-> Px(nodeHeight),
     fill |-> nodeColors(device).fill, stroke |-> nodeColors(device).stroke,
     indicators |-> riskIndicators(device, x, y)]

\* Mutant: the width is always halved.
childWidth_halved(availableWidth, childrenCount) == availableWidth \div 2

childWidth(availableWidth, childrenCount) == availableWidth \div childrenCount

\* Mutant: the slots are handed out from the right.
childX_rightToLeft(x, availableWidth, childrenCount, index) ==
    x + (availableWidth \div 2)
      - childWidth(availableWidth, childrenCount) * index
      - (childWidth(availableWidth, childrenCount) \div 2)
      - Px(25)

\* index counts from 0.
childX(x, availableWidth, childrenCount, index) ==
    x - (availableWidth \div 2)
      + childWidth(availableWidth, childrenCount) * index
      + (childWidth(availableWidth, childrenCount) \div 2)
      - Px(25)

\* Mutant: the child is put right below the parent's connector stub.
childY_belowNode(y) == y + Px(nodeHeight) + Px(20)

childY(y) == y + Px(verticalSpacing)

\* <path key={`conn-${device.id}-${child.id}`}>: M start C c1 c2 end.
connElement(device, child, x, y, cx, cy) ==
    [kind |-> "conn", from |-> device.id, to |-> child.id,
     path |-> <<x + Px(nodeWidth(device)) \div 2, y + Px(nodeHeight),
                x + Px(nodeWidth(device)) \div 2, y + Px(nodeHeight) + Px(20),
                cx + Px(25), cy - Px(20),
                cx + Px(25), cy>>]

\* A call of renderDeviceHierarchy; next is the child the forEach is at
\* (0: the node itself is not drawn yet).
Frame(device, x, y, level, availableWidth) ==
    [device |-> device, x |-> x, y |-> y, level |-> level,
     availableWidth |-> availableWidth, next |-> 0]

RECURSIVE Concat(_)
Concat(ss) == IF ss = <<>> THEN <<>> ELSE Head(ss) \o Concat(Tail(ss))

\* The calls the page makes for the site areas: topology?.map((site, siteIndex)
\* => site.devices.map((device, deviceIndex) => renderDeviceHierarchy(...))).
\* primary site on the left, DR site on the right
siteX(siteIndex) == IF siteIndex = 0 THEN 150 ELSE 500
siteWidth(siteIndex) == IF siteIndex = 0 THEN 300 ELSE 200

\* Mutant: the top-level devices are put a fixed 70 apart.
siteAreaCalls_fixedPitch ==
    LET t == topology.data
        SiteCalls(siteIndex) ==
            LET site == t.sites[siteIndex + 1]
                x == siteX(siteIndex)
                width == siteWidth(siteIndex)
                y == 260
            IN [k \in 1..Len(site.devices) |->
                  Frame(t.nodes[site.devices[k]],
                        Px(x + 20) + (k - 1) * Px(70),
                        Px(y + 60), 0, Px(width - 40))]
    IN Concat([i \in 1..Len(t.sites) |-> SiteCalls(i - 1)])

siteAreaCalls ==
    LET t == topology.data
        SiteCalls(siteIndex) ==
            LET site == t.sites[siteIndex + 1]
                x == siteX(siteIndex)
                width == siteWidth(siteIndex)
                y == 260
                count == IF Len(site.devices) > 1 THEN Len(site.devices) ELSE 1
            IN [k \in 1..Len(site.devices) |->
                  Frame(t.nodes[site.devices[k]],
                        Px(x + 20) + ((k - 1) * Px(width - 40)) \div count,
                        Px(y + 60), 0, Px(width - 40))]
    IN Concat([i \in 1..Len(t.sites) |-> SiteCalls(i - 1)])

\* The devices renderDeviceHierarchy draws for a node: itself, then each
\* child's in order.
RECURSIVE hierarchyIds(_, _)
hierarchyIds(nodes, id) ==
    <<id>> \o Concat([k \in 1..Len(nodes[id].children) |->
                        hierarchyIds(nodes, nodes[id].children[k])])

\* The devices drawn in the site areas.
siteAreaIds ==
    LET t == topology.data
    IN Concat([i \in 1..Len(t.sites) |->
                 Concat([k \in 1..Len(t.sites[i].devices) |->
                           hierarchyIds(t.nodes, t.sites[i].devices[k])])])

\* The devices on the diagram: the tier icons and the site areas.
drawnIds ==
    {staticIcons[i].id : i \in 1..Len(staticIcons)}
        \cup {siteAreaIds[i] : i \in 1..Len(siteAreaIds)}

(***************************************************************************)
(* network-topology.tsx: actions.                                          *)
(***************************************************************************)
SitesResolve ==
    /\ ~sites.loaded
    /\ sites' = [loaded |-> TRUE, data |-> ApiSites]
    /\ UNCHANGED <<cmVars, viewVars, api, devices, topology, selectedSite, selectedDeviceType, render>>

DevicesResolve ==
    /\ ~devices.loaded
    /\ devices' = [loaded |-> TRUE, data |-> api.devices]
    /\ UNCHANGED <<cmVars, viewVars, api, sites, topology, selectedSite, selectedDeviceType, render>>

TopologyResolve ==
    /\ ~topology.loaded
    /\ topology' = [loaded |-> TRUE, data |-> BuildTopology(api.devices)]
    /\ UNCHANGED <<cmVars, viewVars, api, sites, devices, selectedSite, selectedDeviceType, render>>

setSelectedSite(value) ==
    /\ ~topologyLoading
    /\ render.phase # "running"
    /\ value \in SiteOptions
    /\ value # selectedSite
    /\ selectedSite' = value
    /\ UNCHANGED <<cmVars, viewVars, api, sites, devices, topology, selectedDeviceType, render>>

setSelectedDeviceType(value) ==
    /\ ~topologyLoading
    /\ render.phase # "running"
    /\ value # selectedDeviceType
    /\ selectedDeviceType' = value
    /\ UNCHANGED <<cmVars, viewVars, api, sites, devices, topology, selectedSite, render>>

\* Mutant: the join is made over the filtered device list.
handleDeviceClick_overFiltered(device) ==
    LET Found(list, Is(_)) ==
            IF SelectSeq(list, Is) = <<>> THEN Undefined ELSE Head(SelectSeq(list, Is))
        IsSite(s) == s.id = device.siteId
        IsParent(d) == d.id = device.parentDeviceId
        IsChild(d) == d.parentDeviceId = device.id
        site == Found(sites.data, IsSite)
    IN /\ selectedDevice' =
             [device |-> device,
              siteName |-> IF site = Undefined THEN "undefined" ELSE site.name,
              parentDevice |-> IF device.parentDeviceId # 0
                               THEN Found(filteredDevices, IsParent) ELSE Undefined,
              childDevices |-> SelectSeq(filteredDevices, IsChild)]
       /\ deviceDetailsOpen' = TRUE
       /\ UNCHANGED <<cmVars, api, sites, devices, topology, selectedSite,
                      selectedDeviceType, render, zoom>>

\* find is the first element that passes, or undefined.
handleDeviceClick(device) ==
    LET Found(list, Is(_)) ==
            IF SelectSeq(list, Is) = <<>> THEN Undefined ELSE Head(SelectSeq(list, Is))
        IsSite(s) == s.id = device.siteId
        IsParent(d) == d.id = device.parentDeviceId
        IsChild(d) == d.parentDeviceId = device.id
        site == Found(sites.data, IsSite)
    IN /\ selectedDevice' =
             [device |-> device,
              siteName |-> IF site = Undefined THEN "undefined" ELSE site.name,
              parentDevice |-> IF device.parentDeviceId # 0
                               THEN Found(devices.data, IsParent) ELSE Undefined,
              childDevices |-> SelectSeq(devices.data, IsChild)]
       /\ deviceDetailsOpen' = TRUE
       /\ UNCHANGED <<cmVars, api, sites, devices, topology, selectedSite,
                      selectedDeviceType, render, zoom>>

\* A click on a firewall, router or switch icon.
ClickIcon ==
    /\ ~topologyLoading
    /\ render.phase # "running"
    /\ \E i \in 1..Len(networkDevices) : handleDeviceClick(networkDevices[i])

\* A click on a node of a site area.
ClickNode ==
    /\ ~topologyLoading
    /\ render.phase # "running"
    /\ \E i \in 1..Len(siteAreaIds) : handleDeviceClick(topology.data.nodes[siteAreaIds[i]])

\* <Dialog open={detailsOpen} onOpenChange={setDetailsOpen}>: closing.
CloseDeviceDetails ==
    /\ ~topologyLoading
    /\ deviceDetailsOpen
    /\ deviceDetailsOpen' = FALSE
    /\ UNCHANGED <<cmVars, selectedDevice, api, sites, devices, topology, selectedSite,
                   selectedDeviceType, render, zoom>>

\* Mutant: the upper limit is not applied.
zoomInUpdater_unclamped(prev) == Plus(prev, Tenth)

\* prev => Math.min(prev + 0.1, 2)
zoomInUpdater(prev) == MathMin(Plus(prev, Tenth), Two)

\* prev => Math.max(prev - 0.1, 0.5)
zoomOutUpdater(prev) == MathMax(Minus(prev, Tenth), Half)

handleZoomIn ==
    /\ zoom' = zoomInUpdater(zoom)
    /\ UNCHANGED <<cmVars, api, sites, devices, topology, selectedSite,
                   selectedDeviceType, render, selectedDevice, deviceDetailsOpen>>

handleZoomOut ==
    /\ zoom' = zoomOutUpdater(zoom)
    /\ UNCHANGED <<cmVars, api, sites, devices, topology, selectedSite,
                   selectedDeviceType, render, selectedDevice, deviceDetailsOpen>>

\* disabled={zoom >= 2} and disabled={zoom <= 0.5}
ZoomInDisabled == LessEq(Two, zoom)
ZoomOutDisabled == LessEq(zoom, Half)

\* A click on an enabled Zoom In or Zoom Out button.
ClickZoomIn ==
    /\ ~topologyLoading
    /\ ~ZoomInDisabled
    /\ handleZoomIn

ClickZoomOut ==
    /\ ~topologyLoading
    /\ ~ZoomOutDisabled
    /\ handleZoomOut

\* The page's render function reaches the site areas.
\* Mutant: the elements array lives outside the function and is never
\* emptied.
BeginRender_sharedElements ==
    /\ ~topologyLoading
    /\ render.phase # "running"
    /\ render' = [phase |-> "running", todo |-> siteAreaCalls, stack |-> <<>>,
                  elements |-> render.elements,
                  previous |-> IF render.phase = "done"
                               THEN [rendered |-> TRUE, elements |-> render.elements]
                               ELSE render.previous]
    /\ UNCHANGED <<cmVars, viewVars, api, sites, devices, topology, selectedSite, selectedDeviceType>>

BeginRender ==
    /\ ~topologyLoading
    /\ render.phase # "running"
    /\ render' = [phase |-> "running", todo |-> siteAreaCalls, stack |-> <<>>,
                  elements |-> <<>>,
                  previous |-> IF render.phase = "done"
                               THEN [rendered |-> TRUE, elements |-> render.elements]
                               ELSE render.previous]
    /\ UNCHANGED <<cmVars, viewVars, api, sites, devices, topology, selectedSite, selectedDeviceType>>

\* renderDeviceHierarchy(device, deviceX, deviceY, 0, width - 40, ...) is called.
CallTopLevel ==
    /\ render.phase = "running"
    /\ render.stack = <<>>
    /\ render.todo # <<>>
    /\ render' = [render EXCEPT !.todo = Tail(@), !.stack = <<Head(render.todo)>>]
    /\ UNCHANGED <<cmVars, viewVars, api, sites, devices, topology, selectedSite, selectedDeviceType>>

Top == render.stack[Len(render.stack)]
SetTop(frame) == [render.stack EXCEPT ![Len(render.stack)] = frame]

\* elements.push(<g key={`device-${device.id}`}> ... </g>)
RenderNode ==
    /\ render.phase = "running"
    /\ render.stack # <<>>
    /\ Top.next = 0
    /\ render' = [render EXCEPT
          !.elements = Append(@, deviceElement(Top.device, Top.x, Top.y)),
          !.stack = SetTop([Top EXCEPT !.next = 1])]
    /\ UNCHANGED <<cmVars, viewVars, api, sites, devices, topology, selectedSite, selectedDeviceType>>

\* Mutant: a visited set; a child whose call is already on the stack is
\* passed over.
RenderChild_skipsVisited ==
    /\ render.phase = "running"
    /\ render.stack # <<>>
    /\ Top.next \in 1..Len(Top.device.children)
    /\ LET f == Top
           count == Len(f.device.children)
           child == topology.data.nodes[f.device.children[f.next]]
           cx == childX(f.x, f.availableWidth, count, f.next - 1)
           cy == childY(f.y)
           visited == {render.stack[i].device.id : i \in 1..Len(render.stack)}
       IN render' = [render EXCEPT
             !.elements = IF child.id \in visited THEN @
                          ELSE Append(@, connElement(f.device, child, f.x, f.y, cx, cy)),
             !.stack = IF child.id \in visited THEN SetTop([f EXCEPT !.next = @ + 1])
                       ELSE Append(SetTop([f EXCEPT !.next = @ + 1]),
                                   Frame(child, cx, cy, f.level + 1,
                                         childWidth(f.availableWidth, count) - Px(10)))]
    /\ UNCHANGED <<cmVars, viewVars, api, sites, devices, topology, selectedSite, selectedDeviceType>>

\* One turn of device.children.forEach: the connector is pushed and the
\* child's call is entered.
RenderChild ==
    /\ render.phase = "running"
    /\ render.stack # <<>>
    /\ Top.next \in 1..Len(Top.device.children)
    /\ LET f == Top
           count == Len(f.device.children)
           child == topology.data.nodes[f.device.children[f.next]]
           cx == childX(f.x, f.availableWidth, count, f.next - 1)
           cy == childY(f.y)
       IN render' = [render EXCEPT
             !.elements = Append(@, connElement(f.device, child, f.x, f.y, cx, cy)),
             !.stack = Append(SetTop([f EXCEPT !.next = @ + 1]),
                              Frame(child, cx, cy, f.level + 1,
                                    childWidth(f.availableWidth, count) - Px(10)))]
    /\ UNCHANGED <<cmVars, viewVars, api, sites, devices, topology, selectedSite, selectedDeviceType>>

\* return <g key={`hierarchy-${device.id}`}>{elements}</g>
Return ==
    /\ render.phase = "running"
    /\ render.stack # <<>>
    /\ Top.next > Len(Top.device.children)
    /\ render' = [render EXCEPT !.stack = SubSeq(@, 1, Len(@) - 1)]
    /\ UNCHANGED <<cmVars, viewVars, api, sites, devices, topology, selectedSite, selectedDeviceType>>

\* Every site area is drawn.
FinishRender ==
    /\ render.phase = "running"
    /\ render.stack = <<>>
    /\ render.todo = <<>>
    /\ render' = [render EXCEPT !.phase = "done"]
    /\ UNCHANGED <<cmVars, viewVars, api, sites, devices, topology, selectedSite, selectedDeviceType>>

\* While the topology page is shown the change-request page is not mounted.
ChangeManagementUnmounted ==
    /\ user = NoUser
    /\ server = <<>>
    /\ changeRequests = NoData
    /\ query = [fetching |-> FALSE, invalidated |-> FALSE]
    /\ dialogOpen = FALSE
    /\ detailsOpen = FALSE
    /\ selectedRequest = NoRequest
    /\ form = defaultValues
    /\ formErrors = {}
    /\ mutation = [k \in Kinds |-> [isPending |-> FALSE, variables |-> NoVariables]]
    /\ lastSettled = NoSettled
    /\ nToasts = 0
    /\ lastToast = NoToast
    /\ nRequests = 0
    /\ nUserActions = 0
    /\ peer = PeerUnmounted

(***************************************************************************)
(* The topology page and its filters: the page mounts with its three       *)
(* fetches outstanding; the API holds any device list.                     *)
(***************************************************************************)
InitTopology ==
    /\ ChangeManagementUnmounted
    /\ api \in {[devices |-> l] :
                  l \in DeviceLists(MaxDevices, DeviceTypes, {"active", "warning"}, SiteIds)}
    /\ sites = [loaded |-> FALSE, data |-> <<>>]
    /\ devices = [loaded |-> FALSE, data |-> <<>>]
    /\ topology = [loaded |-> FALSE, data |-> [sites |-> <<>>, nodes |-> <<>>]]
    /\ selectedSite = "all"
    /\ selectedDeviceType = "all"
    /\ render = NotRendered
    /\ selectedDevice = NoDevice
    /\ deviceDetailsOpen = FALSE
    /\ zoom = One

NextTopology ==
    \/ SitesResolve
    \/ DevicesResolve
    \/ TopologyResolve
    \/ \E value \in {"all"} \cup {ToString(i) : i \in SiteIds} : setSelectedSite(value)
    \/ \E value \in DeviceTypeOptions : setSelectedDeviceType(value)

SpecTopology == InitTopology /\ [][NextTopology]_vars

(***************************************************************************)
(* The drawing of the site areas: the three fetches have delivered, the    *)
(* filters are at "all"; the API holds any device list of one site.        *)
(***************************************************************************)
InitRender ==
    /\ ChangeManagementUnmounted
    /\ api \in {[devices |-> l] :
                  l \in UNION {DeviceLists(MaxDevices, DeviceTypes, DeviceStatuses, {s})
                                 : s \in SiteIds}}
    /\ sites = [loaded |-> TRUE, data |-> ApiSites]
    /\ devices = [loaded |-> TRUE, data |-> api.devices]
    /\ topology = [loaded |-> TRUE, data |-> BuildTopology(api.devices)]
    /\ selectedSite = "all"
    /\ selectedDeviceType = "all"
    /\ render = NotRendered
    /\ selectedDevice = NoDevice
    /\ deviceDetailsOpen = FALSE
    /\ zoom = One

NextRender ==
    \/ BeginRender
    \/ CallTopLevel
    \/ RenderNode
    \/ RenderChild
    \/ Return
    \/ FinishRender

SpecRender == InitRender /\ [][NextRender]_vars

(***************************************************************************)
(* The layout of the site areas: hierarchies of up to MaxNodes switches    *)
(* and servers in one site; between two passes the filters may change.     *)
(***************************************************************************)
InitLayout ==
    /\ ChangeManagementUnmounted
    /\ api \in {[devices |-> l] :
                  l \in UNION {DeviceLists(MaxNodes, {"switch", "server"}, {"active"}, {s})
                                 : s \in SiteIds}}
    /\ sites = [loaded |-> TRUE, data |-> ApiSites]
    /\ devices = [loaded |-> TRUE, data |-> api.devices]
    /\ topology = [loaded |-> TRUE, data |-> BuildTopology(api.devices)]
    /\ selectedSite = "all"
    /\ selectedDeviceType = "all"
    /\ render = NotRendered
    /\ selectedDevice = NoDevice
    /\ deviceDetailsOpen = FALSE
    /\ zoom = One

NextLayout ==
    \/ BeginRender
    \/ CallTopLevel
    \/ RenderNode
    \/ RenderChild
    \/ Return
    \/ FinishRender
    \/ \E value \in {"all", "2"} : setSelectedSite(value)
    \/ \E value \in {"all", "server"} : setSelectedDeviceType(value)

SpecLayout == InitLayout /\ [][NextLayout]_vars

(***************************************************************************)
(* renderDeviceHierarchy as a function of the hierarchy it is given: the   *)
(* forests of up to MaxNodes devices of one site, and the same forests     *)
(* with one more child reference that closes a cycle.  The calls are       *)
(* synchronous: a pass that has begun goes on while it can.                *)
(***************************************************************************)
\* The device and the devices above it.
RECURSIVE SelfAndAncestors(_, _)
SelfAndAncestors(nodes, id) ==
    IF nodes[id].parentDeviceId = 0 THEN {id}
    ELSE {id} \cup SelfAndAncestors(nodes, nodes[id].parentDeviceId)

\* device.children of `from` also holds `to`.
WithChild(t, from, to) ==
    [t EXCEPT !.nodes[from].children = Append(@, to)]

Forests == {BuildTopology(l) : l \in DeviceLists(MaxNodes, {"switch"}, {"active"}, {ApiSites[1].id})}

CyclicHierarchies ==
    UNION {{WithChild(t, from, to) : to \in SelfAndAncestors(t.nodes, from)}
             : <<t, from>> \in {<<t, from>> \in Forests \X (1..MaxNodes) : from <= Len(t.nodes)}}

InitHierarchy ==
    /\ ChangeManagementUnmounted
    /\ topology \in {[loaded |-> TRUE, data |-> t] : t \in Forests \cup CyclicHierarchies}
    /\ api = [devices |-> [i \in 1..Len(topology.data.nodes) |->
                             [id |-> topology.data.nodes[i].id,
                              type |-> topology.data.nodes[i].type,
                              status |-> topology.data.nodes[i].status,
                              siteId |-> topology.data.nodes[i].siteId,
                              parentDeviceId |-> topology.data.nodes[i].parentDeviceId]]]
    /\ sites = [loaded |-> TRUE, data |-> ApiSites]
    /\ devices = [loaded |-> TRUE, data |-> api.devices]
    /\ selectedSite = "all"
    /\ selectedDeviceType = "all"
    /\ render = NotRendered
    /\ selectedDevice = NoDevice
    /\ deviceDetailsOpen = FALSE
    /\ zoom = One

\* The recursion is followed down to MaxDepth nested calls.
RenderChildBounded ==
    /\ Len(render.stack) < MaxDepth
    /\ RenderChild

NextHierarchy ==
    \/ BeginRender
    \/ CallTopLevel
    \/ RenderNode
    \/ RenderChildBounded
    \/ Return
    \/ FinishRender

SpecHierarchy == InitHierarchy /\ [][NextHierarchy]_vars /\ WF_vars(NextHierarchy)

(***************************************************************************)
(* The zoom buttons of the loaded page, next to the two filters.           *)
(***************************************************************************)
InitZoom ==
    /\ ChangeManagementUnmounted
    /\ api \in {[devices |-> l] :
                  l \in DeviceLists(1, {"switch"}, {"active"}, {ApiSites[1].id})}
    /\ sites = [loaded |-> TRUE, data |-> ApiSites]
    /\ devices = [loaded |-> TRUE, data |-> api.devices]
    /\ topology = [loaded |-> TRUE, data |-> BuildTopology(api.devices)]
    /\ selectedSite = "all"
    /\ selectedDeviceType = "all"
    /\ render = NotRendered
    /\ selectedDevice = NoDevice
    /\ deviceDetailsOpen = FALSE
    /\ zoom = One

NextZoom ==
    \/ ClickZoomIn
    \/ ClickZoomOut
    \/ \E value \in {"all"} \cup {ToString(i) : i \in SiteIds} : setSelectedSite(value)
    \/ \E value \in DeviceTypeOptions : setSelectedDeviceType(value)

SpecZoom == InitZoom /\ [][NextZoom]_vars

(***************************************************************************)
(* The device details: the three fetches have delivered; the user filters  *)
(* and clicks devices.                                                     *)
(***************************************************************************)
InitDetails ==
    /\ ChangeManagementUnmounted
    /\ api \in {[devices |-> l] :
                  l \in DeviceLists(MaxDevices, {"switch", "server"}, {"active"}, SiteIds)}
    /\ sites = [loaded |-> TRUE, data |-> ApiSites]
    /\ devices = [loaded |-> TRUE, data |-> api.devices]
    /\ topology = [loaded |-> TRUE, data |-> BuildTopology(api.devices)]
    /\ selectedSite = "all"
    /\ selectedDeviceType = "all"
    /\ render = NotRendered
    /\ selectedDevice = NoDevice
    /\ deviceDetailsOpen = FALSE
    /\ zoom = One

NextDetails ==
    \/ \E value \in {"all"} \cup {ToString(i) : i \in SiteIds} : setSelectedSite(value)
    \/ \E value \in DeviceTypeOptions : setSelectedDeviceType(value)
    \/ ClickIcon
    \/ ClickNode
    \/ CloseDeviceDetails

SpecDetails == InitDetails /\ [][NextDetails]_vars

(***************************************************************************)
(* The initial fetches: both pages are open, each in a window of its own,  *)
(* with all four fetches outstanding.                                      *)
(***************************************************************************)
InitLoading ==
    /\ InitChangeManagement
    /\ peer = PeerUnmounted
    /\ user = [kind |-> "user", role |-> "admin"]
    /\ api \in {[devices |-> l] : l \in DeviceLists(MaxDevices, {"switch"}, {"active"}, {1})}
    /\ sites = [loaded |-> FALSE, data |-> <<>>]
    /\ devices = [loaded |-> FALSE, data |-> <<>>]
    /\ topology = [loaded |-> FALSE, data |-> [sites |-> <<>>, nodes |-> <<>>]]
    /\ selectedSite = "all"
    /\ selectedDeviceType = "all"
    /\ render = NotRendered
    /\ selectedDevice = NoDevice
    /\ deviceDetailsOpen = FALSE
    /\ zoom = One

NextLoading ==
    \/ FetchResolve
    \/ FetchReject
    \/ ClickView
    \/ CloseDetails
    \/ SitesResolve
    \/ DevicesResolve
    \/ TopologyResolve
    \/ \E value \in {"all", "2"} : setSelectedSite(value)
    \/ ClickNode

SpecLoading == InitLoading /\ [][NextLoading]_vars

(***************************************************************************)
(* Change-request page: properties.                                        *)
(***************************************************************************)
\* A step in which mutation k is started.
Started(k) == ~mutation[k].isPending /\ mutation'[k].isPending
\* A step in which mutation k completes with the given outcome.
Settled(k, outcome) ==
    /\ mutation[k].isPending
    /\ ~mutation'[k].isPending
    /\ lastSettled' = [kind |-> k, outcome |-> outcome, error |-> lastSettled'.error]
\* The status the cached list shows for request id ("null": not listed).
ShownStatus(data, id) ==
    IF data.loaded /\ id \in 1..Len(data.list) THEN data.list[id].status ELSE "null"

\* C1: an approve request is issued only from an open details view whose
\* request shows status pending, an implement request only from one showing
\* approved, each for the request shown; from a view showing implemented or
\* rejected no approve or implement request is issued, whatever the role.
C1_TransitionOnlyFromShownStatus ==
    [][ /\ Started("approve") =>
              /\ detailsOpen
              /\ selectedRequest.status = "pending"
              /\ mutation'["approve"].variables = [id |-> selectedRequest.id]
        /\ Started("implement") =>
              /\ detailsOpen
              /\ selectedRequest.status = "approved"
              /\ mutation'["implement"].variables = [id |-> selectedRequest.id]
        /\ selectedRequest.status \in {"implemented", "rejected"} =>
              ~Started("approve") /\ ~Started("implement")
      ]_vars

\* C1 witness: an implement request is in flight from a view showing
\* approved, and the API has already seen a rejection elsewhere.
C1_Witness ==
    /\ mutation["implement"].isPending
    /\ selectedRequest.status = "approved"
    /\ \E i \in 1..Len(server) : server[i].status = "rejected"

\* C2: in the details view the Approve control is rendered exactly when the
\* shown request is pending and a user is logged in whose role is admin or
\* approver; and an approve request is only ever started in such a state.
C2_ApproveRoles == {"admin", "approver"}
C2_ApproveControlGate ==
    /\ [](ApproveControl <=>
            /\ DetailsRendered
            /\ selectedRequest.status = "pending"
            /\ user # NoUser
            /\ user.role \in C2_ApproveRoles)
    /\ [][Started("approve") =>
            /\ user # NoUser
            /\ user.role \in C2_ApproveRoles
            /\ selectedRequest.status = "pending"]_vars

\* C2 witness: an approver (not admin) has started an approve request.
C2_Witness ==
    /\ user # NoUser
    /\ user.role = "approver"
    /\ mutation["approve"].isPending

\* C3: in the details view the Mark-as-Implemented control is rendered
\* exactly when the shown request is approved and the role is admin or
\* implementer; an approver never sees it; an implement request is only ever
\* started in such a state.
C3_ImplementRoles == {"admin", "implementer"}
C3_ImplementControlGate ==
    /\ [](ImplementControl <=>
            /\ DetailsRendered
            /\ selectedRequest.status = "approved"
            /\ user # NoUser
            /\ user.role \in C3_ImplementRoles)
    /\ []((user # NoUser /\ user.role = "approver") => ~ImplementControl)
    /\ [][Started("implement") =>
            /\ user # NoUser
            /\ user.role \in C3_ImplementRoles
            /\ selectedRequest.status = "approved"]_vars

\* C3 witness: an implementer has started an implement request.
C3_Witness ==
    /\ user # NoUser
    /\ user.role = "implementer"
    /\ mutation["implement"].isPending

\* C4: when a create, approve or implement request fails, exactly one toast
\* is raised, destructive and carrying the error message, and the cached
\* list, the query's invalidation, both dialogs, the selected request and
\* the form are as before.
C4_FailureLeavesStateUntouched ==
    [][\A k \in Kinds : Settled(k, "error") =>
            /\ nToasts' = nToasts + 1
            /\ lastToast'.variant = "destructive"
            /\ lastToast'.description = lastSettled'.error
            /\ lastSettled'.error \in ErrorMessages
            /\ UNCHANGED <<changeRequests, query, dialogOpen, detailsOpen,
                           selectedRequest, form, formErrors>>
      ]_vars

\* C4 witness: a create has failed with the create dialog open and the
\* description the user typed still in the form.
C4_Witness ==
    /\ lastSettled.kind = "create"
    /\ lastSettled.outcome = "error"
    /\ nToasts = 1
    /\ dialogOpen
    /\ form.description = "Open port 443"

\* C5: a successful create, approve or implement invalidates the
\* '/api/change-requests' entry (which is then fetched again) and leaves the
\* cached list as it is; the cached list changes only when a fetch delivers,
\* and is then the fetched list as a whole.
C5_InvalidateNotMerge ==
    [][ /\ \A k \in Kinds : Settled(k, "success") =>
              /\ query'.invalidated
              /\ query'.fetching
              /\ changeRequests' = changeRequests
        /\ changeRequests' # changeRequests =>
              /\ query.fetching
              /\ ~query'.fetching
              /\ ~query'.invalidated
              /\ changeRequests' = [loaded |-> TRUE, list |-> server]
        /\ (query.invalidated /\ ~query'.invalidated) =>
              changeRequests' = [loaded |-> TRUE, list |-> server]
      ]_vars

\* C5 witness: an approve has succeeded, the entry is invalidated and the
\* list still shows the request as pending.
C5_Witness ==
    /\ lastSettled = [kind |-> "approve", outcome |-> "success", error |-> NoError]
    /\ query.invalidated
    /\ \E i \in 1..Len(server) :
          /\ server[i].status = "approved"
          /\ ShownStatus(changeRequests, i) = "pending"

\* C6: starting a create, approve or implement changes neither the cached
\* list nor the selected request; the cached list changes only when a fetch
\* delivers; the selected request changes only by viewing a row of the
\* cached list, never in a step that starts or completes a mutation.
C6_NoOptimisticChange ==
    [][ /\ (\E k \in Kinds : Started(k)) =>
              UNCHANGED <<changeRequests, selectedRequest>>
        /\ changeRequests' # changeRequests =>
              query.fetching /\ ~query'.fetching /\ UNCHANGED <<mutation, nRequests>>
        /\ selectedRequest' # selectedRequest =>
              /\ \E i \in 1..Len(filteredRequests) : selectedRequest' = filteredRequests[i]
              /\ UNCHANGED <<mutation, nRequests, changeRequests>>
      ]_vars

\* C6 witness: an approve is in flight and both the details view and the
\* list still show the request as pending.
C6_Witness ==
    /\ mutation["approve"].isPending
    /\ detailsOpen
    /\ selectedRequest.status = "pending"
    /\ ShownStatus(changeRequests, selectedRequest.id) = "pending"

\* C7: the requests handed to apiRequest are exactly the user actions that
\* started a mutation, one each: a failure sends nothing.
C7_OneRequestPerUserAction == nRequests = nUserActions

\* C7 witness: after a failed approve the user has acted a second time.
C7_Witness ==
    /\ nUserActions = 2
    /\ lastSettled.kind = "approve"
    /\ lastSettled.outcome = "error"
    /\ mutation["approve"].isPending

(***************************************************************************)
(* C8.  filteredDevices holds exactly the devices whose siteId, as a       *)
(* string, equals the site selection and whose type equals the type        *)
(* selection, "all" matching every device in its dimension; the retained   *)
(* devices keep the order of the device list, and with both selections     *)
(* "all" the result is the device list itself.                             *)
(***************************************************************************)
C8_Matches(d) ==
    /\ selectedSite # "all" => ToString(d.siteId) = selectedSite
    /\ selectedDeviceType # "all" => d.type = selectedDeviceType

C8_FilterIsExact ==
    LET all == devices.data
        kept == filteredDevices
    IN /\ {kept[i] : i \in 1..Len(kept)} = {all[i] : i \in {j \in 1..Len(all) : C8_Matches(all[j])}}
       /\ \A i \in 1..Len(kept) : \A j \in 1..Len(kept) :
              i < j => \E a \in 1..Len(all) : \E b \in 1..Len(all) :
                          a < b /\ all[a] = kept[i] /\ all[b] = kept[j]
       /\ Len(kept) = Cardinality({j \in 1..Len(all) : C8_Matches(all[j])})
       /\ (selectedSite = "all" /\ selectedDeviceType = "all") => kept = all

\* Both filters are set and retain some of the devices, not all of them.
C8_Witness ==
    /\ ~topologyLoading
    /\ selectedSite = "1"
    /\ selectedDeviceType = "server"
    /\ Len(filteredDevices) = 1
    /\ Len(devices.data) = MaxDevices

(***************************************************************************)
(* C9.  A device is on the diagram, as a tier icon or within a site area,  *)
(* only while it passes the site and type filters.                         *)
(***************************************************************************)
C9_DrawnOnlyWhilePassingFilters ==
    ~topologyLoading =>
        \A id \in drawnIds : \E i \in 1..Len(filteredDevices) : filteredDevices[i].id = id

(***************************************************************************)
(* C10.  Every device node renderDeviceHierarchy draws, of whatever type,  *)
(* carries a pulsing indicator iff the device's status is critical, down   *)
(* or warning; then it carries exactly one, red for critical and down,     *)
(* orange for warning.                                                     *)
(***************************************************************************)
C10_RiskIndicator ==
    \A i \in 1..Len(render.elements) :
        LET e == render.elements[i] IN
        e.kind = "device" =>
            LET status == topology.data.nodes[e.id].status
                atRisk == status \in {"critical", "down", "warning"}
            IN /\ atRisk <=> Len(e.indicators) > 0
               /\ atRisk =>
                    /\ Len(e.indicators) = 1
                    /\ e.indicators[1].className = "animate-pulse"
                    /\ e.indicators[1].fill =
                         IF status = "warning" THEN "#FF832B" ELSE "#FF0000"

\* A firewall that is down and an active device are both drawn.
C10_Witness ==
    /\ render.phase = "done"
    /\ \E i \in 1..Len(render.elements) :
           LET e == render.elements[i] IN
           /\ e.kind = "device"
           /\ topology.data.nodes[e.id].type = "firewall"
           /\ topology.data.nodes[e.id].status = "down"
           /\ Len(e.indicators) = 1
    /\ \E i \in 1..Len(render.elements) :
           LET e == render.elements[i] IN
           /\ e.kind = "device"
           /\ topology.data.nodes[e.id].status = "active"
           /\ e.indicators = <<>>

(***************************************************************************)
(* C11.  A submission of the create form with an empty title or an empty   *)
(* description sends no request and starts no create mutation, and the     *)
(* submission attaches an error to each empty required field.              *)
(***************************************************************************)
C11_Offending(data) == {f \in {"title", "description"} : data[f] = ""}

C11_InvalidSubmissionRejected ==
    [][/\ C11_Offending(form) # {} =>
            /\ ~Started("create")
            /\ nRequests' = nRequests
       /\ (form' = form /\ formErrors' # formErrors /\ dialogOpen /\ dialogOpen') =>
            /\ C11_Offending(form) # {}
            /\ \A f \in C11_Offending(form) : f \in formErrors'
            /\ UNCHANGED <<mutation, nRequests, server>>]_vars

\* Both required fields were empty at a submission; nothing has been sent.
C11_Witness ==
    /\ dialogOpen
    /\ form.title = ""
    /\ form.description = ""
    /\ formErrors = {"title", "description"}
    /\ nRequests = 0
    /\ ~isPending("create")

(***************************************************************************)
(* C12.  A firewall change with a title and a description passes           *)
(* validation whatever sourceIp holds, its submission starts the create    *)
(* mutation with the form values, and sourceIp is "" unless it was filled. *)
(***************************************************************************)
C12_FirewallSubmitsWithoutSourceIp ==
    /\ defaultValues.sourceIp = ""
    /\ [](( /\ form.type = "firewall"
            /\ form.title # ""
            /\ form.description # "")
          => /\ requestFormSchema(form) = {}
             /\ (dialogOpen /\ ~isLoading /\ ~isPending("create") /\ nRequests < MaxSent)
                   => ENABLED handleCreateRequest)
    /\ [][Started("create") =>
            /\ mutation'["create"].variables = form
            /\ requestFormSchema(form) = {}]_vars

\* A firewall change is in flight whose sourceIp was never filled in.
C12_Witness ==
    /\ isPending("create")
    /\ mutation["create"].variables.type = "firewall"
    /\ mutation["create"].variables.sourceIp = ""
    /\ mutation["create"].variables.title # ""

(***************************************************************************)
(* C13.  Two passes of renderDeviceHierarchy over the same hierarchies,    *)
(* anchors and widths draw the same nodes at the same positions and the    *)
(* same connector paths, whatever was drawn before and whatever the        *)
(* filters were changed to in between.                                     *)
(***************************************************************************)
C13_LayoutIsDeterministic ==
    (render.phase = "done" /\ render.previous.rendered) =>
        render.elements = render.previous.elements

\* A hierarchy with a connector was drawn twice, the second time under
\* other filters.
C13_Witness ==
    /\ render.phase = "done"
    /\ render.previous.rendered
    /\ selectedSite = "2"
    /\ selectedDeviceType = "server"
    /\ \E i \in 1..Len(render.elements) : render.elements[i].kind = "conn"

(***************************************************************************)
(* Layout claims: what is read off the drawing.                            *)
(***************************************************************************)
\* The drawn node of a device.
DrawnNode(id) ==
    CHOOSE e \in {render.elements[i] : i \in 1..Len(render.elements)} :
        e.kind = "device" /\ e.id = id

IsDrawn(id) ==
    \E i \in 1..Len(render.elements) :
        render.elements[i].kind = "device" /\ render.elements[i].id = id

\* Nesting depth of a device below its top-level ancestor, and that ancestor.
RECURSIVE DepthOf(_)
DepthOf(id) ==
    LET p == topology.data.nodes[id].parentDeviceId
    IN IF p = 0 THEN 0 ELSE 1 + DepthOf(p)

RECURSIVE RootOf(_)
RootOf(id) ==
    LET p == topology.data.nodes[id].parentDeviceId
    IN IF p = 0 THEN id ELSE RootOf(p)

SubtreeSize(id) == Len(hierarchyIds(topology.data.nodes, id))

\* The call in progress at position i of the stack was made by the call
\* below it, for the child that call's forEach is at.
CallerOf(i) == render.stack[i - 1]
CallerCount(i) == Len(CallerOf(i).device.children)
CallerIndex(i) == CallerOf(i).next - 2

(***************************************************************************)
(* C14 (as claimed).  A child of a node laid out with available width W    *)
(* and n children is itself laid out with available width exactly W / n.   *)
(***************************************************************************)
C14_ChildLaidOutWithEqualShare ==
    \A i \in 2..Len(render.stack) :
        /\ (CallerOf(i).availableWidth \div CallerCount(i)) * CallerCount(i)
              = CallerOf(i).availableWidth
        /\ render.stack[i].availableWidth
              = CallerOf(i).availableWidth \div CallerCount(i)

(***************************************************************************)
(* C14 (amended).  The children of a node laid out at x with available     *)
(* width W and n children are given slots of width exactly W / n, side by  *)
(* side from x - W/2: child number k (from 0) is anchored 25 left of the   *)
(* centre of slot k; the child is itself laid out with available width     *)
(* W / n - 10, whatever the size of its subtree.                           *)
(***************************************************************************)
C14_EqualSlotsNarrowedByGutter ==
    \A i \in 2..Len(render.stack) :
        LET W == CallerOf(i).availableWidth
            n == CallerCount(i)
            k == CallerIndex(i)
            slot == W \div n
        IN /\ slot * n = W
           /\ 2 * (W \div 2) = W /\ 2 * (slot \div 2) = slot
           /\ render.stack[i].device.id = CallerOf(i).device.children[k + 1]
           /\ render.stack[i].x + Px(25)
                 = (CallerOf(i).x - W \div 2) + k * slot + slot \div 2
           /\ render.stack[i].availableWidth = slot - Px(10)

\* The second of two children is being laid out; its sibling has the larger
\* subtree, and both were given the same width.
C14_Witness ==
    /\ Len(render.stack) = 2
    /\ CallerCount(2) = 2
    /\ CallerIndex(2) = 1
    /\ SubtreeSize(CallerOf(2).device.children[1]) > 1
    /\ SubtreeSize(CallerOf(2).device.children[2]) = 1
    /\ render.stack[2].availableWidth = CallerOf(2).availableWidth \div 2 - Px(10)

(***************************************************************************)
(* C15.  Every child is drawn exactly 70 below its parent: a node at depth *)
(* d below a top-level device anchored at y0 is drawn at y0 + 70 * d,      *)
(* whatever the device types, sibling counts and widths.                   *)
(***************************************************************************)
C15_TopLevelY(id) ==
    LET calls == siteAreaCalls
        call == CHOOSE c \in {calls[i] : i \in 1..Len(calls)} : c.device.id = RootOf(id)
    IN call.y

C15_DepthDeterminesY ==
    \A i \in 1..Len(render.elements) :
        LET e == render.elements[i] IN
        e.kind = "device" =>
            /\ e.y = C15_TopLevelY(e.id) + Px(70) * DepthOf(e.id)
            /\ topology.data.nodes[e.id].parentDeviceId # 0 =>
                  /\ IsDrawn(topology.data.nodes[e.id].parentDeviceId)
                  /\ e.y = DrawnNode(topology.data.nodes[e.id].parentDeviceId).y + Px(70)

\* A server two levels below a top-level switch with two children is drawn.
C15_Witness ==
    /\ render.phase = "done"
    /\ \E i \in 1..Len(render.elements) :
           LET e == render.elements[i] IN
           /\ e.kind = "device"
           /\ DepthOf(e.id) = 2
           /\ topology.data.nodes[e.id].type = "server"
           /\ topology.data.nodes[RootOf(e.id)].type = "switch"
           /\ Len(topology.data.nodes[RootOf(e.id)].children) = 2
           /\ e.y = Px(260 + 60 + 140)

(***************************************************************************)
(* C16.  Every connector starts at the parent's bottom-centre              *)
(* (x + nodeWidth / 2, y + 40) and ends at the child's top-centre          *)
(* (child x + child nodeWidth / 2, child y), for every pair of parent and  *)
(* child types.                                                            *)
(***************************************************************************)
C16_ConnectorJoinsCentres ==
    \A i \in 1..Len(render.elements) :
        LET e == render.elements[i] IN
        (e.kind = "conn" /\ IsDrawn(e.from) /\ IsDrawn(e.to)) =>
            LET parent == DrawnNode(e.from)
                child == DrawnNode(e.to)
            IN /\ e.path[1] = parent.x + parent.width \div 2
               /\ e.path[2] = parent.y + Px(40)
               /\ e.path[7] = child.x + child.width \div 2
               /\ e.path[8] = child.y

(***************************************************************************)
(* C17.  A click on a device sets the details to the name of the site with *)
(* the device's siteId, the device with the id of its parentDeviceId (none *)
(* without a parent) and exactly the devices whose parentDeviceId is its   *)
(* id, all taken from the whole fetched device list whatever the filters   *)
(* are, and asks the server nothing.                                       *)
(***************************************************************************)
C17_Fetched == {devices.data[i] : i \in 1..Len(devices.data)}

C17_DetailsJoinFullList ==
    [][selectedDevice' # selectedDevice =>
          LET details == selectedDevice'
              d == details.device
          IN /\ \E i \in 1..Len(sites.data) :
                    sites.data[i].id = d.siteId /\ details.siteName = sites.data[i].name
             /\ d.parentDeviceId = 0 => details.parentDevice = Undefined
             /\ d.parentDeviceId # 0 =>
                    /\ details.parentDevice \in C17_Fetched
                    /\ details.parentDevice.id = d.parentDeviceId
             /\ {details.childDevices[i] : i \in 1..Len(details.childDevices)}
                    = {c \in C17_Fetched : c.parentDeviceId = d.id}
             /\ Len(details.childDevices)
                    = Cardinality({c \in C17_Fetched : c.parentDeviceId = d.id})
             /\ deviceDetailsOpen'
             /\ UNCHANGED <<api, sites, devices, topology>>]_vars

\* Under the filter "server" the details of a switch show its child, and
\* under the filter of site 2 the details of a site-1 server show its parent.
C17_Witness ==
    /\ deviceDetailsOpen
    /\ selectedDevice # NoDevice
    /\ selectedSite = "2"
    /\ selectedDeviceType = "server"
    /\ selectedDevice.device.siteId = 1
    /\ selectedDevice.device.type = "server"
    /\ selectedDevice.siteName = "Primary Site"
    /\ selectedDevice.parentDevice # Undefined
    /\ selectedDevice.parentDevice.type = "switch"

(***************************************************************************)
(* C18.  While an initial fetch of a page is outstanding the page renders  *)
(* only its loading indicator and nothing of it can be operated: the       *)
(* diagram is rendered only when all three of sites, devices and topology  *)
(* have arrived, the change-request table only when the change-requests    *)
(* query is not loading.                                                   *)
(***************************************************************************)
C18_TopologyOutstanding == {q \in {"sites", "devices", "topology"} :
                              ~(CASE q = "sites" -> sites.loaded
                                  [] q = "devices" -> devices.loaded
                                  [] q = "topology" -> topology.loaded)}

C18_RequestsOutstanding == query.fetching /\ ~changeRequests.loaded

C19_PeerSettles ==
    peer.approve.isPending /\ ~peer'.approve.isPending

C19_RaceLeftToServer ==
    \* no conflict detection: a shown pending request can be approved
    \* whatever the other client is doing
    /\ []((peerApproveControl /\ ~peer.approve.isPending /\ peer.nRequests < MaxSent)
             => ENABLED peerClickApprove)
    /\ []((ApproveControl /\ ~isPending("approve") /\ nRequests < MaxSent)
             => ENABLED ClickApprove)
    /\ [][/\ Started("approve") =>
               /\ UNCHANGED <<peer, server>>
               /\ mutation'["approve"].variables.id = selectedRequest.id
          /\ (~peer.approve.isPending /\ peer'.approve.isPending) =>
               /\ UNCHANGED <<clientVars, server>>
               /\ peer'.approve.variables.id = peer.selectedRequest.id
          \* the first client's response
          /\ Settled("approve", "success") =>
               /\ UNCHANGED peer
               /\ query'.invalidated /\ query'.fetching
               /\ ~detailsOpen'
               /\ nToasts' = nToasts + 1
               /\ lastToast'.variant = "default"
               /\ UNCHANGED <<changeRequests, selectedRequest, dialogOpen, form, nRequests>>
          /\ Settled("approve", "error") =>
               /\ UNCHANGED <<peer, server>>
               /\ nToasts' = nToasts + 1
               /\ lastToast'.variant = "destructive"
               /\ lastToast'.description = lastSettled'.error
               /\ UNCHANGED <<changeRequests, query, detailsOpen, selectedRequest,
                              dialogOpen, form, formErrors, nRequests>>
          \* the second client's response
          /\ (C19_PeerSettles /\ server' # server) =>
               /\ UNCHANGED clientVars
               /\ peer'.query.invalidated /\ peer'.query.fetching
               /\ ~peer'.detailsOpen
               /\ peer'.nToasts = peer.nToasts + 1
               /\ peer'.lastToast.variant = "default"
               /\ peer'.changeRequests = peer.changeRequests
               /\ peer'.selectedRequest = peer.selectedRequest
               /\ peer'.nRequests = peer.nRequests
          /\ (C19_PeerSettles /\ server' = server) =>
               /\ UNCHANGED clientVars
               /\ peer'.nToasts = peer.nToasts + 1
               /\ peer'.lastToast.variant = "destructive"
               /\ peer' = [peer EXCEPT !.approve = peer'.approve,
                                       !.nToasts = peer'.nToasts,
                                       !.lastToast = peer'.lastToast]]_vars

\* Both approve requests for the same request were in flight together; the
\* first client's was accepted, the second client's was refused.
C19_Witness ==
    /\ lastSettled = [kind |-> "approve", outcome |-> "success", error |-> NoError]
    /\ nRequests = 1
    /\ peer.nRequests = 1
    /\ ~peer.approve.isPending
    /\ peer.selectedRequest.id = selectedRequest.id
    /\ peer.lastToast.variant = "destructive"
    /\ peer.lastToast.description = "409: Conflict"
    /\ peer.detailsOpen
    /\ ~detailsOpen
    /\ server[selectedRequest.id].status = "approved"

(***************************************************************************)
(* C20 (as claimed).  With this client the only actor, every approve       *)
(* request targets a change request that is pending at the server when it  *)
(* is sent, every implement request one that is approved at the server,    *)
(* also between the invalidation of the cache and the refetch's delivery.  *)
(***************************************************************************)
C20_TargetsServerStatus ==
    [][/\ Started("approve") => server[selectedRequest.id].status = "pending"
       /\ Started("implement") => server[selectedRequest.id].status = "approved"]_vars

(***************************************************************************)
(* C20 (amended).  Every approve request targets a change request that the *)
(* details view shows as pending and that is pending at the server or was  *)
(* moved on from pending by this client's own earlier request; every       *)
(* implement request one shown as approved that is approved or already     *)
(* implemented at the server.  What the client shows never runs ahead of   *)
(* the server and lags only along pending, approved, implemented.          *)
(***************************************************************************)
C20_Stage(status) ==
    CASE status = "pending" -> 1
      [] status = "approved" -> 2
      [] status = "implemented" -> 3

C20_LagsBehind(shown, held) ==
    \/ shown = held
    \/ /\ shown \in {"pending", "approved"}
       /\ held \in {"approved", "implemented"}
       /\ C20_Stage(shown) < C20_Stage(held)

C20_TargetsShownStatus ==
    /\ [](/\ \A i \in 1..Len(changeRequests.list) :
                /\ i <= Len(server)
                /\ changeRequests.list[i].id = server[i].id
                /\ C20_LagsBehind(changeRequests.list[i].status, server[i].status)
          /\ selectedRequest # NoRequest =>
                /\ selectedRequest.id \in 1..Len(server)
                /\ C20_LagsBehind(selectedRequest.status, server[selectedRequest.id].status))
    /\ [][/\ Started("approve") =>
                /\ selectedRequest.status = "pending"
                /\ server[selectedRequest.id].status \in {"pending", "approved", "implemented"}
          /\ Started("implement") =>
                /\ selectedRequest.status = "approved"
                /\ server[selectedRequest.id].status \in {"approved", "implemented"}]_vars

\* An approve request is in flight for a change request that this client
\* has already approved: it was sent from the list as fetched before.
C20_Witness ==
    /\ isPending("approve")
    /\ selectedRequest.status = "pending"
    /\ mutation["approve"].variables.id = selectedRequest.id
    /\ server[selectedRequest.id].status = "approved"
    /\ nRequests = 2

(***************************************************************************)
(* C21.  A client has at most one request of each mutation kind in flight: *)
(* while one is outstanding the control that sends this kind is disabled,  *)
(* whichever change request the details dialog shows, so every request is  *)
(* sent while no request of its kind is outstanding.                       *)
(***************************************************************************)
C21_OneInFlightPerKind ==
    /\ [](/\ isPending("approve") => ~ENABLED ClickApprove
          /\ isPending("implement") => ~ENABLED ClickImplement
          /\ isPending("create") => ~ENABLED handleCreateRequest)
    /\ [][nRequests' # nRequests =>
            /\ nRequests' = nRequests + 1
            /\ \E k \in Kinds :
                  /\ ~mutation[k].isPending
                  /\ mutation'[k].isPending
                  /\ \A other \in Kinds \ {k} : mutation'[other] = mutation[other]]_vars

\* An approve request is outstanding while the details dialog shows another
\* request, pending as well, to an approver.
C21_Witness ==
    /\ isPending("approve")
    /\ ApproveControl
    /\ selectedRequest.id # mutation["approve"].variables.id
    /\ nRequests < MaxSent

(***************************************************************************)
(* C22.  When an approve or implement request succeeds, the details dialog *)
(* is closed only if it shows the request that was approved or             *)
(* implemented; a dialog opened meanwhile for another request stays open.  *)
(***************************************************************************)
C22_ClosesOnlyItsOwnDialog ==
    [][\A k \in {"approve", "implement"} :
          (Settled(k, "success") /\ detailsOpen
              /\ selectedRequest.id # mutation[k].variables.id) => detailsOpen']_vars

(***************************************************************************)
(* C23.  A successful create closes the create dialog, resets the form to  *)
(* its default values, invalidates the change-request query and raises one *)
(* success notification; submitting and a failed create leave the dialog   *)
(* open and the form as it is.                                             *)
(***************************************************************************)
C23_CreateSuccessResets ==
    [][/\ Settled("create", "success") =>
            /\ ~dialogOpen'
            /\ form' = defaultValues
            /\ formErrors' = {}
            /\ query'.invalidated /\ query'.fetching
            /\ nToasts' = nToasts + 1
            /\ lastToast'.title = "Change Request Created"
            /\ lastToast'.variant = "default"
       /\ Started("create") => dialogOpen /\ UNCHANGED <<dialogOpen, form>>
       /\ Settled("create", "error") =>
            /\ UNCHANGED <<dialogOpen, form, formErrors, query, changeRequests>>
            /\ lastToast'.variant = "destructive"]_vars

\* A create has succeeded: the dialog is closed and the description typed
\* for it is gone from the form.
C23_Witness ==
    /\ lastSettled = [kind |-> "create", outcome |-> "success", error |-> NoError]
    /\ ~dialogOpen
    /\ form = defaultValues
    /\ Len(server) = 1
    /\ query.invalidated
    /\ nToasts = 1

(***************************************************************************)
(* C24.  The layout does not keep the nodes apart: in a band whose share   *)
(* per top-level device is narrower than the narrowest node (the DR site's *)
(* band with four top-level devices, say), two drawn device rectangles     *)
(* intersect.                                                              *)
(***************************************************************************)
DrawnNodes == {e \in {render.elements[i] : i \in 1..Len(render.elements)} : e.kind = "device"}

Intersect(a, b) ==
    /\ a.x < b.x + b.width
    /\ b.x < a.x + a.width
    /\ a.y < b.y + b.height
    /\ b.y < a.y + a.height

C24_Crowded(siteIndex) ==
    LET site == topology.data.sites[siteIndex + 1]
    IN /\ Len(site.devices) > 1
       /\ Px(siteWidth(siteIndex) - 40) \div Len(site.devices) < Px(50)

C24_CrowdedBandOverlaps ==
    (render.phase = "done"
        /\ \E siteIndex \in 0..(Len(topology.data.sites) - 1) : C24_Crowded(siteIndex))
    => \E a \in DrawnNodes : \E b \in DrawnNodes : a.id # b.id /\ Intersect(a, b)

\* Four top-level devices of the DR site are drawn, the first over the
\* second.
C24_Witness ==
    /\ render.phase = "done"
    /\ Len(topology.data.sites[2].devices) = 4
    /\ C24_Crowded(1)
    /\ \E a \in DrawnNodes : \E b \in DrawnNodes :
          /\ a.id = topology.data.sites[2].devices[1]
          /\ b.id = topology.data.sites[2].devices[2]
          /\ Intersect(a, b)

(***************************************************************************)
(* C25.  Every device node drawn for a site's hierarchy lies horizontally  *)
(* inside the site's band: its left edge is at or right of the band's x,   *)
(* its right edge at or left of x + width.                                 *)
(***************************************************************************)
C25_SiteIndexOf(id) ==
    CHOOSE siteIndex \in 0..(Len(topology.data.sites) - 1) :
        topology.data.sites[siteIndex + 1].id = topology.data.nodes[id].siteId

C25_NodesInsideBand ==
    \A e \in DrawnNodes :
        LET siteIndex == C25_SiteIndexOf(e.id)
        IN /\ e.x >= Px(siteX(siteIndex))
           /\ e.x + e.width <= Px(siteX(siteIndex) + siteWidth(siteIndex))

(***************************************************************************)
(* C26.  The children of a node are placed left to right in their given    *)
(* order: for a positive available width W and n children, the i-th        *)
(* child's x is strictly smaller than the (i+1)-th child's, and the two    *)
(* are exactly W / n apart.  Checked for every call on the stack and every *)
(* two consecutive children of its device that are drawn.                  *)
(***************************************************************************)
C26_ChildrenInOrder ==
    \A j \in 1..Len(render.stack) :
        LET f == render.stack[j]
            n == Len(f.device.children)
        IN f.availableWidth > 0 =>
             \A i \in 1..(n - 1) :
                 IsDrawn(f.device.children[i]) /\ IsDrawn(f.device.children[i + 1]) =>
                     /\ DrawnNode(f.device.children[i]).x
                          < DrawnNode(f.device.children[i + 1]).x
                     /\ (DrawnNode(f.device.children[i + 1]).x
                           - DrawnNode(f.device.children[i]).x) * n
                          = f.availableWidth

\* Witness: a call with three children, all of them drawn.
C26_Witness ==
    \E j \in 1..Len(render.stack) :
        LET f == render.stack[j]
        IN /\ f.availableWidth > 0
           /\ Len(f.device.children) = 3
           /\ \A i \in 1..3 : IsDrawn(f.device.children[i])

(***************************************************************************)
(* C27.  On every finite cycle-free device tree renderDeviceHierarchy      *)
(* terminates, having drawn each device exactly once and exactly one       *)
(* connector per parent-child pair; there is no cycle detection, so on a   *)
(* children relation with a cycle the recursion never comes to an end.     *)
(***************************************************************************)
C27_IsForest == topology.data \in Forests

C27_Count(P(_)) == Cardinality({i \in 1..Len(render.elements) : P(render.elements[i])})

C27_EachOnce ==
    /\ \A id \in 1..Len(topology.data.nodes) :
          LET IsNode(e) == e.kind = "device" /\ e.id = id
          IN C27_Count(IsNode) = 1
    /\ \A p \in 1..Len(topology.data.nodes) :
          \A k \in 1..Len(topology.data.nodes[p].children) :
              LET IsConn(e) == /\ e.kind = "conn"
                               /\ e.from = p
                               /\ e.to = topology.data.nodes[p].children[k]
              IN C27_Count(IsConn) = 1
    /\ Len(render.elements) = 2 * Len(topology.data.nodes) - Len(topology.data.sites[1].devices)

C27_TerminatesOnTreesOnly ==
    /\ [](C27_IsForest /\ render.phase = "done" => C27_EachOnce)
    /\ [](~C27_IsForest => render.phase # "done")
    /\ (C27_IsForest ~> render.phase = "done")

\* Witness: a hierarchy of MaxNodes devices, three levels deep, is drawn.
C27_Witness ==
    /\ C27_IsForest
    /\ render.phase = "done"
    /\ Len(topology.data.nodes) = MaxNodes
    /\ \E id \in 1..MaxNodes : DepthOf(id) >= 2
    /\ C27_EachOnce

(***************************************************************************)
(* C28.  No sequence of client actions issues a reject transition: every   *)
(* request the page sends is a create (POST /api/change-requests), an      *)
(* approve or an implement (PUT .../approve, .../implement), and no step   *)
(* of the page turns a request that was not rejected into a rejected one   *)
(* or adds a rejected one.                                                 *)
(***************************************************************************)
C28_NoRejectTransition ==
    [][/\ \A k \in Kinds :
            Started(k) =>
                /\ Route(mutationFn(k, mutation'[k].variables)) \in Kinds
                /\ mutationFn(k, mutation'[k].variables).action # "reject"
       /\ Len(server') >= Len(server)
       /\ \A i \in 1..Len(server') :
            server'[i].status = "rejected" =>
                i <= Len(server) /\ server[i].status = "rejected"]_vars

\* Witness: the API has applied an approval this page asked for.
C28_Witness ==
    /\ lastSettled.kind = "approve"
    /\ lastSettled.outcome = "success"
    /\ \E i \in 1..Len(server) : server[i].status = "approved"
    /\ nRequests = MaxSent

(***************************************************************************)
(* C29.  With the "Network Devices" option of the device-type filter       *)
(* selected, the firewall, router and switch devices of the selected site  *)
(* are retained, so each of them still has its static icon drawn.          *)
(***************************************************************************)
C29_NetworkOptionKeepsNetworkDevices ==
    DiagramRendered /\ selectedDeviceType = "network" =>
        \A i \in 1..Len(devices.data) :
            LET device == devices.data[i]
            IN /\ device.type \in {"firewall", "router", "switch"}
               /\ (selectedSite = "all" \/ ToString(device.siteId) = selectedSite)
               => /\ \E j \in 1..Len(filteredDevices) : filteredDevices[j].id = device.id
                  /\ \E j \in 1..Len(staticIcons) : staticIcons[j].id = device.id

(***************************************************************************)
(* C30.  Starting from zoom 1, after any zoom-in and zoom-out actions the  *)
(* zoom factor is within [0.5, 2]; an action moves it by one step of 0.1   *)
(* (to the nearest double) clamped to that range; zoom-in at 2 and         *)
(* zoom-out at 0.5 leave it unchanged, and at the bound the corresponding  *)
(* button is disabled.                                                     *)
(***************************************************************************)
\* a and b are less than one unit of 2^-52 apart.
C30_Near(a, b) ==
    LET d == IF Less(a, b) THEN ExactDifference(b, a) ELSE ExactDifference(a, b)
    IN d.hi = 0 /\ d.lo < 8

C30_ZoomInRange ==
    /\ [](LessEq(Half, zoom) /\ LessEq(zoom, Two))
    /\ [](zoom = Two => ZoomInDisabled /\ zoomInUpdater(zoom) = zoom)
    /\ [](zoom = Half => ZoomOutDisabled /\ zoomOutUpdater(zoom) = zoom)
    /\ [][/\ Less(zoom, zoom') =>
               IF Less(ExactSum(zoom, Tenth), Two)
               THEN C30_Near(zoom', ExactSum(zoom, Tenth))
               ELSE zoom' = Two
          /\ Less(zoom', zoom) =>
               IF Less(Half, ExactDifference(zoom, Tenth))
               THEN C30_Near(zoom', ExactDifference(zoom, Tenth))
               ELSE zoom' = Half]_vars

\* Witness: zoomed in to 2; Zoom In is disabled, Zoom Out would take a step.
C30_Witness ==
    /\ zoom = Two
    /\ ZoomInDisabled
    /\ ~ZoomOutDisabled
    /\ zoomOutUpdater(zoom) # zoom

====
